---- MODULE Spec2Model ----
(***************************************************************************)
(* ZenPool: the transaction-sound rate limiter (TransactionSoundEngine),   *)
(* the audio controller (AudioEngine), the block-event effect of App and   *)
(* the particle container of ParticleVisualizer, as one state machine.     *)
(*                                                                         *)
(* Time is the integer millisecond clock Date.now().  The program is       *)
(* single threaded: every handler (a feed message, a click, a timer        *)
(* callback, an animation frame) runs to completion at one instant, and    *)
(* `now` is the instant of the handler that ran last.  Timer callbacks run *)
(* at their deadlines, in the order of their deadlines: the clock does not *)
(* pass the deadline of a pending timer.  Handlers that fall in the same   *)
(* millisecond run in any order.                                           *)
(***************************************************************************)
EXTENDS Integers, Sequences, FiniteSets, Bags, TLC

(***************************************************************************)
(* Program constants.                                                      *)
(***************************************************************************)
DUST == 1000
TINY == 10000
SMALL == 100000
MEDIUM == 1000000
LARGE == 10000000
WHALE == 100000000
MEGA == 1000000000

activityWindow == 2000
maxSoundsPerSecond == 20
maxPolyphony == 16
minCooldown == 30

EchoDelay == 80
\* The cutoff (Hz) the synth's lowpass filter is built with, the cutoff at
\* stress 0 and what one tenth of stress adds to it.
filterInitial == 5000
filterBase == 3000
filterPerTenth == 500
SuppressMs == 4000
ClearBlockMs == 5000

\* ParticleVisualizer.  Lengths are in thousandths of a pixel (GRAVITY is
\* 0.15 px per tick), MAX_FILL_RATIO is in percent.
MAX_PARTICLES == 300
GRAVITY == 150
CONTAINER_PADDING == 40
MAX_FILL_RATIO == 85
\* One animation tick's step of the block animation, in hundredths, and where
\* its two phases end.
ProgressStep == 2
ConvergeEnd == 100
DissolveEnd == 200
\* Alpha is in hundredths: a new particle's, what a tick of the block
\* animation takes, what a tick of pruning takes.
AlphaNew == 80
AlphaBlockStep == 2
AlphaPruneStep == 10
\* The size of the canvas on the page, in pixels.
canvasWidth == 768
canvasHeight == 432

(***************************************************************************)
(* Bounds of the model.                                                    *)
(***************************************************************************)
\* The clock value at which the page is loaded (Date.now() is far from 0).
T0 == 5000
\* Feed messages delivered in one run of the rate-limiter specification.
MaxMsgs == 2
\* The largest batch of transactions one feed message carries.
MaxBatch == 42

\* Transaction values (satoshi): both sides of every threshold of the limiter.
TxValues == {DUST - 1, DUST, SMALL - 1, SMALL, LARGE - 1, LARGE, WHALE - 1, WHALE}
\* Delays (ms) between one delivered event and the next.
Gaps == {minCooldown - 1, activityWindow - minCooldown + 1}
\* The random factors of getDuration, in percent: 1 + (random - 0.5) * 0.4.
Jitters == {80, 120}
\* Network stress levels, in tenths of the range 0.0 .. 1.0.
StressLevels == {0, 10}
\* What one feed message carries: one transaction of any value, or a batch of
\* whales (a batch of smaller transactions is cut to its first by the cooldown).
Messages ==
  {<<v, 1>> : v \in TxValues} \cup {<<WHALE, k>> : k \in {maxPolyphony, MaxBatch}}

(***************************************************************************)
(* Pure helpers.                                                           *)
(***************************************************************************)
Max(a, b) == IF a >= b THEN a ELSE b
Min(a, b) == IF a <= b THEN a ELSE b

RECURSIVE Pow2(_)
Pow2(n) == IF n = 0 THEN 1 ELSE 2 * Pow2(n - 1)

RECURSIVE FloorLog2(_)
FloorLog2(v) == IF v < 2 THEN 0 ELSE 1 + FloorLog2(v \div 2)

\* One, with the fraction bits of the fixed-point logarithm.
LogOne == Pow2(10)
\* One, with the fraction bits of the mantissa while squaring.
MantOne == Pow2(14)

\* The fraction of log2 of the mantissa x (in [1,2), scaled by MantOne), bit by
\* bit from the bit worth k down: square, and emit the bit when the square
\* reaches 2.
RECURSIVE LogFrac(_, _)
LogFrac(x, k) ==
  IF k = 0 THEN 0
  ELSE LET sq == (x * x) \div MantOne
       IN  IF sq >= 2 * MantOne
           THEN k + LogFrac(sq \div 2, k \div 2)
           ELSE LogFrac(sq, k \div 2)

\* Math.log up to a constant factor: log2(v) scaled by LogOne, for v >= 1.
Log(v) ==
  LET n == FloorLog2(v)
      x == IF Pow2(n) >= MantOne THEN v \div (Pow2(n) \div MantOne)
                                 ELSE v * (MantOne \div Pow2(n))
  IN  n * LogOne + LogFrac(x, LogOne \div 2)

normalizeValueUnclamped(value) ==
  IF value < DUST THEN <<0, 1>>
  ELSE <<Log(value) - Log(DUST), Log(MEGA) - Log(DUST)>>

\* normalizeValue: the pair <<numerator, denominator>> of the value in [0,1].
normalizeValue(value) ==
  IF value < DUST THEN <<0, 1>>
  ELSE LET minLog == Log(DUST)
           maxLog == Log(MEGA)
           valueLog == Log(Min(value, MEGA))
       IN  <<valueLog - minLog, maxLog - minLog>>

\* getDuration in ms, as setTimeout(duration * 1000) truncates it; jit is the
\* random variation in percent.
getDurationMs(nv, jit) ==
  LET baseDuration == 100 + (nv[1] * 1900) \div nv[2]
  IN  (baseDuration * jit) \div 100

\* The notes of SCALE_FREQUENCIES, and 0xFFFF.
ScaleLength == 20
HexFFFF == 65535

\* A txid is the number its hex digits write; parseInt(txid.slice(-4), 16) is
\* the number its last four digits write.
lastFourHex(txid) == txid % (HexFFFF + 1)

\* Math.round((hashEntropy - 0.5) * 2 * 2) for hashEntropy = entropy / 0xFFFF:
\* floor(4 * entropy / 0xFFFF - 2 + 1/2).
indexOffset(entropy) == (8 * entropy - 3 * HexFFFF) \div (2 * HexFFFF)

\* getFrequency: the index into SCALE_FREQUENCIES (from 0) of the note the
\* tone is given; the frequency is that note's, times the random detune.
\* Math.floor((1 - normalizedValue) * (SCALE_FREQUENCIES.length - 1)).
baseIndex(nv) == ((nv[2] - nv[1]) * (ScaleLength - 1)) \div nv[2]

getFrequencyOfAll(nv, txid) ==
  Max(0, Min(ScaleLength - 1,
             baseIndex(nv) + indexOffset(lastFourHex(txid))
               + txid \div (HexFFFF + 1)))
getFrequencyUnclamped(nv, txid) ==
  baseIndex(nv) + indexOffset(lastFourHex(txid))
getFrequency(nv, txid) ==
  Max(0, Min(ScaleLength - 1, baseIndex(nv) + indexOffset(lastFourHex(txid))))

(***************************************************************************)
(* TransactionSoundEngine.                                                 *)
(***************************************************************************)
\* getActivityLevel: the timestamps kept, and the rate in sounds per 1000 s.
getActivityLevel(stamps, t) ==
  LET windowStart == t - activityWindow
      kept == SelectSeq(stamps, LAMBDA s: s >= windowStart)
  IN  [soundTimestamps |-> kept,
       level |-> (Len(kept) * 1000 * 1000) \div activityWindow]

\* Variants of the four tests of shouldPlaySound, each wrong in one place.
cooldownRejectsWhales(e, t, value) == t - e.lastSoundTime < minCooldown
cooldownRejectsShorter(e, t, value) ==
  t - e.lastSoundTime < minCooldown - 1 /\ value < WHALE
dustRejectsBelow(value) == value < DUST - 1
polyphonyAdmitsAbove(value) == value > LARGE
polyphonyAdmitsNearLarge(value) == value >= LARGE - 1
loadShedsUpTo(level, value) ==
  level > maxSoundsPerSecond * 1000 /\ value <= SMALL

\* The tests of shouldPlaySound, in its order.
\* 1. still cooling down after the last admitted sound, and not a whale
cooldownRejects(e, t, value) ==
  t - e.lastSoundTime < minCooldown /\ value < WHALE
\* 2. dust
dustRejects(value) == value < DUST
\* 3. at the polyphony limit, what is still let through
polyphonyAdmits(value) == value >= LARGE
\* 4. very busy and a small transaction: a coin is tossed
loadSheds(level, value) ==
  level > maxSoundsPerSecond * 1000 /\ value < SMALL

\* shouldPlaySound: the verdict, and soundTimestamps as getActivityLevel left it.
\* rnd is the outcome of Math.random() > 0.5.
shouldPlaySound(e, t, value, rnd) ==
  IF cooldownRejects(e, t, value)
    THEN [ok |-> FALSE, soundTimestamps |-> e.soundTimestamps]
  ELSE IF dustRejects(value)
    THEN [ok |-> FALSE, soundTimestamps |-> e.soundTimestamps]
  ELSE IF e.activeSounds >= maxPolyphony
    THEN [ok |-> polyphonyAdmits(value), soundTimestamps |-> e.soundTimestamps]
  ELSE LET a == getActivityLevel(e.soundTimestamps, t)
       IN  IF loadSheds(a.level, value)
             THEN [ok |-> rnd, soundTimestamps |-> a.soundTimestamps]
             ELSE [ok |-> TRUE, soundTimestamps |-> a.soundTimestamps]

\* The bell accent of a sound that is played: the value is MEDIUM or more,
\* the bell synth exists (initialize() builds it with the synth, dispose()
\* drops both) and bellVelocity, (normalizedValue - 0.3) * 0.4, is positive.
bellPlays(e, value) ==
  /\ value >= MEDIUM
  /\ e.synth
  /\ 10 * normalizeValue(value)[1] > 3 * normalizeValue(value)[2]

\* The record of one triggerSound call: its arguments, the engine before it
\* and its outcome (bell: the call played the bell accent).
CallRecord(e, t, value, admitted) ==
  [value |-> value, at |-> t, pre |-> e, admitted |-> admitted,
   bell |-> admitted /\ bellPlays(e, value), echo |-> FALSE]

\* The engine as constructed: the field initialisers of the class, no timer
\* pending.  synth is TRUE once initialize() has built the audio graph (the
\* filter is built with it); filterFreq is the cutoff the filter is set to.
NewEngine ==
  [synth |-> FALSE, filterFreq |-> 0, isEnabled |-> TRUE, lastSoundTime |-> 0,
   activeSounds |-> 0, soundTimestamps |-> <<>>, soundTimers |-> EmptyBag,
   echoTimers |-> EmptyBag, suppressTimers |-> EmptyBag]

NoCall ==
  [value |-> -1, at |-> 0, pre |-> NewEngine, admitted |-> FALSE,
   bell |-> FALSE, echo |-> FALSE]

\* The callback of the whale echo finds the engine e: the sub-octave tone is
\* played if the synth exists and the engine is enabled.
echoPlaysDisabled(e) == e.synth
echoPlays(e) == e.synth /\ e.isEnabled

\* triggerSound: the engine after the call and the record of the call.
triggerSound(e, t, value, rnd, jit) ==
  IF ~e.synth \/ ~e.isEnabled
    THEN [eng |-> e, call |-> CallRecord(e, t, value, FALSE)]
  ELSE LET s == shouldPlaySound(e, t, value, rnd)
       IN  IF ~s.ok
             THEN [eng |-> [e EXCEPT !.soundTimestamps = s.soundTimestamps],
                   call |-> CallRecord(e, t, value, FALSE)]
             ELSE LET duration == getDurationMs(normalizeValue(value), jit)
                  IN  [eng |-> [e EXCEPT
                          !.lastSoundTime = t,
                          !.activeSounds = e.activeSounds + 1,
                          !.soundTimers = e.soundTimers (+) SetToBag({t + duration}),
                          !.soundTimestamps = Append(s.soundTimestamps, t),
                          !.echoTimers = IF value >= WHALE
                                           THEN e.echoTimers (+) SetToBag({t + EchoDelay})
                                           ELSE e.echoTimers],
                       call |-> CallRecord(e, t, value, TRUE)]

\* initialize(): the synth and its filter exist from here on.
initialize(e) == [e EXCEPT !.synth = TRUE, !.filterFreq = filterInitial]

\* dispose(): the synths and the filter are dropped; the timers stay.
dispose(e) == [e EXCEPT !.synth = FALSE, !.filterFreq = 0]

\* setStressLevel: retunes the filter, if there is one; stress is in tenths.
setStressLevel(e, stress) ==
  IF ~e.synth THEN e
  ELSE [e EXCEPT !.filterFreq = filterBase + stress * filterPerTenth]

(***************************************************************************)
(* ParticleVisualizer.                                                     *)
(***************************************************************************)
Px(n) == n * 1000
Abs(a) == IF a >= 0 THEN a ELSE 0 - a
\* v * num / den, rounded towards zero.
Scale(v, num, den) ==
  IF v >= 0 THEN (v * num) \div den ELSE 0 - (((0 - v) * num) \div den)
MinOf(S) == CHOOSE m \in S : \A x \in S : m <= x

\* containerRef before the first resize(), and as resize() sets it.
NoContainer == [x |-> 0, y |-> 0, width |-> 0, height |-> 0, bottom |-> 0]
resize ==
  [x |-> Px(CONTAINER_PADDING), y |-> Px(CONTAINER_PADDING),
   width |-> Px(canvasWidth - CONTAINER_PADDING * 2),
   height |-> Px(canvasHeight - CONTAINER_PADDING * 2),
   bottom |-> Px(canvasHeight - CONTAINER_PADDING)]

getParticleSize(value) ==
  IF value >= 10 * WHALE THEN Px(12)
  ELSE IF value >= WHALE THEN Px(8)
  ELSE IF value >= LARGE THEN Px(5)
  ELSE IF value >= MEDIUM THEN Px(3)
  ELSE Px(2)

\* What the n-th spawn is fed: the value of its transaction and the three
\* numbers it draws from Math.random() - where across the container it
\* appears (percent of the width), vx and vy.
\* The transactions numbered from TowerFrom on build a tower: nine in ten are
\* of MEGA satoshis and fall straight down the middle, the tenth is small
\* and falls near the left wall; all start at the same speed.
TowerFrom == 1000
inTower(n) == n >= TowerFrom
besideTower(n) == inTower(n) /\ (n - TowerFrom) % 10 = 9
txValue(n) ==
  IF inTower(n) THEN (IF besideTower(n) THEN SMALL ELSE MEGA)
  ELSE IF n % 10 = 9 THEN WHALE ELSE IF n % 10 = 4 THEN LARGE ELSE SMALL
drawX(n) ==
  IF inTower(n) THEN (IF besideTower(n) THEN 10 ELSE 50) ELSE (n * 37) % 100
drawVx(n) == IF inTower(n) THEN 0 ELSE ((n % 3) - 1) * 400
drawVy(n) == IF inTower(n) THEN 2500 ELSE 1000 + (n % 2) * 1500

\* The particle spawnParticle builds for the n-th transaction.  hair is 1
\* when the float alpha lies a rounding error above alpha / 100.
newParticle(n, container) ==
  [id |-> n,
   x |-> container.x + (container.width * drawX(n)) \div 100,
   y |-> container.y - Px(20),
   vx |-> drawVx(n), vy |-> drawVy(n),
   size |-> getParticleSize(txValue(n)),
   alpha |-> AlphaNew, hair |-> 0, settled |-> FALSE]

\* Variants of the cap of spawnParticle, each wrong in one place.
overCapLate(ps) == Len(ps) > MAX_PARTICLES + 1
evictOldest(ps) == Tail(ps)

\* spawnParticle's cap: is the list too long, and what one eviction leaves.
overCap(ps) == Len(ps) > MAX_PARTICLES
evictOne(ps) ==
  LET settled == SelectSeq(ps, LAMBDA q : q.settled)
  IN  IF Len(settled) > 0
        THEN LET toRemove == settled[1]
             IN  SelectSeq(ps, LAMBDA q : q.id # toRemove.id)
        ELSE Tail(ps)

\* spawnParticle: the list after the n-th transaction's particle is pushed.
spawnParticle(ps, container, n) ==
  LET pushed == Append(ps, newParticle(n, container))
  IN  IF overCap(pushed) THEN evictOne(pushed) ELSE pushed

\* findSettleY: where p comes to rest among the particles ps.
findSettleY(p, ps, container) ==
  LET under == {j \in 1..Len(ps) :
                  /\ ps[j].id # p.id
                  /\ ps[j].settled
                  /\ Abs(p.x - ps[j].x) < p.size + ps[j].size}
      settleY == MinOf({container.bottom} \cup {ps[j].y - ps[j].size : j \in under})
      minY == container.y + p.size * 2
  IN  Max(settleY, minY)

\* The normal physics of one particle that has not settled: gravity, the
\* move, the walls, settling, damping.  The horizontal drift is 0: the stress
\* level the visualizer is given is 0.
move(p, container) ==
  LET vy1 == p.vy + GRAVITY
      x1 == p.x + p.vx
      left == container.x + p.size
      right == container.x + container.width - p.size
      x2 == IF x1 < left THEN left ELSE x1
      vx2 == IF x1 < left THEN Scale(0 - p.vx, 1, 2) ELSE p.vx
  IN  [p EXCEPT !.x = IF x2 > right THEN right ELSE x2,
                !.y = p.y + vy1,
                !.vx = IF x2 > right THEN Scale(0 - vx2, 1, 2) ELSE vx2,
                !.vy = vy1]
land(q, settleY) ==
  LET lands == q.y >= settleY - q.size
      vx4 == IF lands THEN Scale(q.vx, 8, 10) ELSE q.vx
  IN  [q EXCEPT !.y = IF lands THEN settleY - q.size ELSE @,
                !.vx = Scale(vx4, 99, 100),
                !.vy = IF lands THEN 0 ELSE Scale(@, 99, 100),
                !.settled = lands /\ Abs(vx4) < 100]
fall(p, ps, container) ==
  CHOOSE r \in {land(m[1], m[2]) :
                  m \in {<<q, findSettleY(q, ps, container)>> :
                           q \in {move(p, container)}}} : TRUE

\* A variant of the loop that skips no particle.
fallingOrNot(ps) == [i \in 1..Len(ps) |-> i]

\* The places of the particles that have not settled, in list order: the
\* ones the loop does not skip.
falling(ps) == SelectSeq([i \in 1..Len(ps) |-> i], LAMBDA i : ~ps[i].settled)

physicsOne(ps, container, i) == [ps EXCEPT ![i] = fall(ps[i], ps, container)]

\* The loop over the particles at places todo[k] .. todo[hi], each seeing what
\* the ones before it have become.
RECURSIVE physicsRange(_, _, _, _, _)
physicsRange(ps, container, todo, k, hi) ==
  IF k > hi THEN ps
  ELSE CHOOSE r \in {physicsRange(x, container, todo, k + 1, hi) :
                       x \in {physicsOne(ps, container, todo[k])}} : TRUE

\* The same loop over all of todo, a stretch of it at a time.
PhysicsStretch == 20
RECURSIVE physicsFrom(_, _, _, _)
physicsFrom(ps, container, todo, lo) ==
  IF lo > Len(todo) THEN ps
  ELSE CHOOSE r \in {physicsFrom(x, container, todo, lo + PhysicsStretch) :
                       x \in {physicsRange(ps, container, todo, lo,
                                           Min(lo + PhysicsStretch - 1, Len(todo)))}} : TRUE

\* The normal physics update of one tick.
physics(ps, container) ==
  CHOOSE r \in {physicsFrom(ps, container, todo, 1) : todo \in {falling(ps)}} : TRUE

\* A variant of the fade that takes nothing.
fadeOutStalls(p) == [p EXCEPT !.hair = 1]

\* p.alpha > 0, and p after alpha -= 0.1: in floating point 0.8 less k times
\* 0.1 lies a rounding error above (8 - k) / 10, so the eighth leaves it
\* positive still.
alphaPositive(p) == p.alpha > 0 \/ (p.alpha = 0 /\ p.hair = 1)
fadeOut(p) == [p EXCEPT !.alpha = @ - AlphaPruneStep, !.hair = 1]

\* pruneOverflowingParticles: the list it leaves in particlesRef.
pruneOverflowingParticles(ps, container) ==
  LET settledAt == {i \in 1..Len(ps) : ps[i].settled}
  IN  IF settledAt = {} THEN ps
      ELSE
        LET highestY == MinOf({container.bottom} \cup
                              {ps[i].y - ps[i].size : i \in settledAt})
            fillHeight == container.bottom - highestY
        IN  IF fillHeight * 100 > container.height * MAX_FILL_RATIO
              THEN
                LET toRemove == (Cardinality(settledAt) * 15 + 99) \div 100
                    \* the place of i in the settled particles sorted by y,
                    \* lowest on the screen first (the sort is stable)
                    before(i) == {j \in settledAt :
                                    \/ ps[j].y > ps[i].y
                                    \/ (ps[j].y = ps[i].y /\ j < i)}
                    idsToRemove == {i \in settledAt : Cardinality(before(i)) < toRemove}
                    faded == [i \in 1..Len(ps) |->
                                IF i \in idsToRemove THEN fadeOut(ps[i]) ELSE ps[i]]
                IN  SelectSeq(faded, alphaPositive)
              ELSE ps

\* The block animation's two phases on one particle.
converge(p, container, progress) ==
  LET centerX == container.x + container.width \div 2
      centerY == container.y + container.height \div 2
  IN  [p EXCEPT !.x = @ + Scale(centerX - @, progress, 1000),
                !.y = @ + Scale(centerY - @, progress, 1000),
                !.alpha = Max(0, @ - AlphaBlockStep),
                !.hair = IF p.alpha - AlphaBlockStep > 0 THEN @ ELSE 0]
dissolve(p, progress) ==
  [p EXCEPT !.alpha = Max(0, 100 - (progress - ConvergeEnd)), !.hair = 0]

\* The visualizer as it mounts: its refs.
NewVisualizer ==
  [mounted |-> FALSE, isBlockEvent |-> FALSE, blockEventRef |-> FALSE,
   blockAnimationProgress |-> 0, container |-> NoContainer,
   stressLevel |-> 0, animationRef |-> 0, pending |-> {}, requested |-> 0,
   loops |-> 0]

\* A variant of animate that ends the block session without emptying the
\* list.
animateKeeps(v, ps) ==
  IF v.blockEventRef
    THEN LET progress == v.blockAnimationProgress + ProgressStep
         IN  IF progress < ConvergeEnd
               THEN [viz |-> [v EXCEPT !.blockAnimationProgress = progress],
                     particles |-> IF ps = <<>> THEN ps
                                   ELSE [i \in 1..Len(ps) |->
                                           converge(ps[i], v.container, progress)]]
             ELSE IF progress < DissolveEnd
               THEN [viz |-> [v EXCEPT !.blockAnimationProgress = progress],
                     particles |-> IF ps = <<>> THEN ps
                                   ELSE [i \in 1..Len(ps) |->
                                           dissolve(ps[i], progress)]]
             ELSE [viz |-> [v EXCEPT !.blockEventRef = FALSE,
                                     !.blockAnimationProgress = 0],
                   particles |-> ps]
    ELSE [viz |-> v,
          particles |-> IF ps = <<>> THEN ps
                        ELSE CHOOSE r \in
                               {pruneOverflowingParticles(x, v.container) :
                                  x \in {physics(ps, v.container)}} : TRUE]

\* A variant of animate that dissolves for one tick more.
animateLate(v, ps) ==
  IF v.blockEventRef
    THEN LET progress == v.blockAnimationProgress + ProgressStep
         IN  IF progress < ConvergeEnd
               THEN [viz |-> [v EXCEPT !.blockAnimationProgress = progress],
                     particles |-> IF ps = <<>> THEN ps
                                   ELSE [i \in 1..Len(ps) |->
                                           converge(ps[i], v.container, progress)]]
             ELSE IF progress <= DissolveEnd
               THEN [viz |-> [v EXCEPT !.blockAnimationProgress = progress],
                     particles |-> IF ps = <<>> THEN ps
                                   ELSE [i \in 1..Len(ps) |->
                                           dissolve(ps[i], progress)]]
             ELSE [viz |-> [v EXCEPT !.blockEventRef = FALSE,
                                     !.blockAnimationProgress = 0],
                   particles |-> <<>>]
    ELSE [viz |-> v,
          particles |-> IF ps = <<>> THEN ps
                        ELSE CHOOSE r \in
                               {pruneOverflowingParticles(x, v.container) :
                                  x \in {physics(ps, v.container)}} : TRUE]

\* animate: one tick.  v is the visualizer's refs, ps the particle list.
animate(v, ps) ==
  IF v.blockEventRef
    THEN LET progress == v.blockAnimationProgress + ProgressStep
         IN  IF progress < ConvergeEnd
               THEN [viz |-> [v EXCEPT !.blockAnimationProgress = progress],
                     particles |-> IF ps = <<>> THEN ps
                                   ELSE [i \in 1..Len(ps) |->
                                           converge(ps[i], v.container, progress)]]
             ELSE IF progress < DissolveEnd
               THEN [viz |-> [v EXCEPT !.blockAnimationProgress = progress],
                     particles |-> IF ps = <<>> THEN ps
                                   ELSE [i \in 1..Len(ps) |->
                                           dissolve(ps[i], progress)]]
             ELSE [viz |-> [v EXCEPT !.blockEventRef = FALSE,
                                     !.blockAnimationProgress = 0],
                   particles |-> <<>>]
    ELSE [viz |-> v,
          particles |-> IF ps = <<>> THEN ps
                        ELSE CHOOSE r \in
                               {pruneOverflowingParticles(x, v.container) :
                                  x \in {physics(ps, v.container)}} : TRUE]

\* The effect on isBlockEvent: a block session starts unless one is running.
blockEventEffect(v) ==
  IF v.isBlockEvent /\ ~v.blockEventRef
    THEN [v EXCEPT !.blockEventRef = TRUE, !.blockAnimationProgress = 0]
    ELSE v

(***************************************************************************)
(* AudioEngine, with its drone and its singing bowl.                       *)
(***************************************************************************)
\* The controller as constructed.  dronePlaying is the drone's isPlaying; the
\* drone's and the bowl's synths exist once isInitialized is TRUE; the bowl's
\* own isEnabled follows bowlEnabled.
\* Levels are in tenths of a dB.  The base level of each engine is the level
\* its Tone.Volume is built with; droneDb, txDb and bowlDb are the levels the
\* three volume nodes are set to, or are ramping to.
DroneBase == -240
TxBase == -120
BowlBase == -60
SilentOffset == -600
DroneCalm == -280
DronePerTenth == 12
InitialVolume == 70

NewAudioEngine ==
  [isInitialized |-> FALSE, droneEnabled |-> TRUE,
   transactionSoundsEnabled |-> TRUE, bowlEnabled |-> TRUE,
   dronePlaying |-> FALSE, volume |-> InitialVolume,
   droneDb |-> DroneBase, txDb |-> TxBase, bowlDb |-> BowlBase,
   initializing |-> EmptyBag]

\* applyVolume's offset for the master volume v (0..100): -60 * (1 - v / 100).
dbOffset(v) == (SilentOffset * (100 - v)) \div 100

\* applyVolume(): each engine's setVolume with its base level plus the offset.
applyVolume(a) ==
  [a EXCEPT !.droneDb = DroneBase + dbOffset(a.volume),
            !.txDb = TxBase + dbOffset(a.volume),
            !.bowlDb = BowlBase + dbOffset(a.volume)]

\* AudioEngine.setVolume(volume).
setVolume(a, volume) ==
  applyVolume([a EXCEPT !.volume = Max(0, Min(100, volume))])

\* DroneEngine.setStressLevel(stress), once the drone is built: the volume
\* ramps to lerp(-28, -16, stress); stress is in tenths.
droneSetStressLevel(a, stress) ==
  IF ~a.isInitialized THEN a
  ELSE [a EXCEPT !.droneDb = DroneCalm + DronePerTenth * Max(0, Min(10, stress))]

\* The page as loaded: App's state and the timer of its block effect.
NewApp == [hasEntered |-> FALSE, isBlockEvent |-> FALSE, clearTimers |-> {}]

(***************************************************************************)
(* MelodyEngine (the whale-only preset).                                   *)
(***************************************************************************)
SMALL_WHALE == 1000000
MEDIUM_WHALE == 10000000
LARGE_WHALE == 100000000
MELODY_COOLDOWN == 800
\* SCALE_NOTES: fifteen notes, five pitches (C D E G A) in each of the
\* octaves 3, 4 and 5; a note is its pitch and its octave.
ScaleNotes == 15
Pitches == 5
scaleNote(noteIndex) ==
  [pitch |-> noteIndex % Pitches, octave |-> 3 + noteIndex \div Pitches]

\* A txid is kept here as the numbers its pairs of hex characters write, the
\* last five pairs of it.  txid.slice(-8): the last four pairs.
lastEightHex(txid) == SubSeq(txid, Len(txid) - 3, Len(txid))

\* hashToMelody: the last 8 hex characters, pair by pair from the left.
hashToMelody(txid) ==
  [i \in 1..4 |-> scaleNote(lastEightHex(txid)[i] % ScaleNotes)]

\* getOctaveShift, in semitones.
getOctaveShift(value) ==
  IF value >= LARGE_WHALE THEN -12
  ELSE IF value >= MEDIUM_WHALE THEN 0
  ELSE 12

\* The notes of a melody: the base notes with the octave shift applied.
shifted(note, octaveShift) ==
  [note EXCEPT !.octave = Max(2, Min(6, @ + octaveShift \div 12))]

\* The engine as constructed; event is what the last call of triggerMelody
\* returned (produced FALSE: null), melodies all the events returned so far.
NoMelody ==
  [txid |-> <<>>, value |-> 0, notes |-> <<>>, timestamp |-> 0,
   produced |-> FALSE, previous |-> 0]
NewMelodyEngine ==
  [synth |-> FALSE, isEnabled |-> TRUE, lastMelodyTime |-> 0,
   event |-> NoMelody, melodies |-> {}]

\* triggerMelody(txid, value) at time t.
triggerMelody(e, t, txid, value) ==
  IF ~e.synth \/ ~e.isEnabled THEN [e EXCEPT !.event = NoMelody]
  ELSE IF t - e.lastMelodyTime < MELODY_COOLDOWN
    THEN [e EXCEPT !.event = NoMelody]
  ELSE IF value < SMALL_WHALE THEN [e EXCEPT !.event = NoMelody]
  ELSE LET baseNotes == hashToMelody(txid)
           octaveShift == getOctaveShift(value)
           event ==
             [txid |-> txid, value |-> value,
              notes |-> [i \in 1..4 |-> shifted(baseNotes[i], octaveShift)],
              timestamp |-> t, produced |-> TRUE,
              previous |-> e.lastMelodyTime]
       IN  [e EXCEPT !.lastMelodyTime = t, !.event = event,
                     !.melodies = @ \cup {event}]

\* What is recorded of a run: the bowl strikes since isBlockEvent last rose,
\* the end of the latest quiet window, the clicks and the block notifications
\* so far; with them the MelodyEngine of the whale-only preset.
NewHistory ==
  [strikes |-> 0, quietUntil |-> 0, clicks |-> 0, blocks |-> 0,
   volumeSet |-> FALSE, tones |-> {}, fees |-> {},
   recentSounds |-> <<>>, played |-> <<>>, melody |-> NewMelodyEngine,
   appended |-> <<>>, handled |-> [answer |-> <<>>, delivered |-> <<>>],
   graphs |-> [drone |-> 0, tx |-> 0, bowl |-> 0]]

\* suppress(durationMs) at time t.
suppress(e, t, durationMs) ==
  [e EXCEPT !.isEnabled = FALSE,
            !.suppressTimers = @ (+) SetToBag({t + durationMs})]

\* setEnabled(enabled).
setEnabled(e, enabled) == [e EXCEPT !.isEnabled = enabled]

\* The world a handler works on: w.tse, w.ae, w.app, w.hist, w.viz.
\* AudioEngine.triggerBlockEvent at time t.
triggerBlockEvent(w, t) ==
  IF ~w.ae.isInitialized THEN w
  ELSE [w EXCEPT
          !.hist.strikes = IF w.ae.bowlEnabled THEN @ + 1 ELSE @,
          !.hist.quietUntil = t + SuppressMs,
          !.tse = suppress(w.tse, t, SuppressMs)]

\* AudioEngine.start() and stop(), DroneEngine.start() and stop() in them.
start(a) ==
  IF ~a.isInitialized THEN a
  ELSE applyVolume(IF a.droneEnabled THEN [a EXCEPT !.dronePlaying = TRUE]
                    ELSE a)
stop(a) == [a EXCEPT !.dronePlaying = FALSE]

\* AudioEngine.toggleDrone().
toggleDrone(a) ==
  LET enabled == ~a.droneEnabled
  IN  [a EXCEPT !.droneEnabled = enabled,
                !.dronePlaying = IF enabled THEN a.isInitialized \/ @ ELSE FALSE]

\* App's effect on [isBlockEvent, audioState.isPlaying], run at time t after a
\* handler took the world from pre to w: when one of the two changed, the
\* cleanup of the last run clears its timer and the effect runs again.
appBlockEffect(pre, w, t) ==
  IF /\ w.app.isBlockEvent = pre.app.isBlockEvent
     /\ w.ae.dronePlaying = pre.ae.dronePlaying
    THEN w
  ELSE LET cleaned == [w EXCEPT !.app.clearTimers = {}]
       IN  IF w.app.isBlockEvent /\ w.ae.dronePlaying
             THEN [triggerBlockEvent(cleaned, t) EXCEPT
                     !.app.clearTimers = {t + ClearBlockMs}]
             ELSE cleaned

\* The visualizer is rendered once the user has entered, and is handed
\* isBlockEvent.  When it mounts (with no transaction to show yet) its effects
\* run: the one on the prop, then the one that sizes the canvas and calls
\* animate() for the first time.  Later the effect on the prop runs when the
\* prop has changed.
visualizerEffects(w) ==
  IF ~w.app.hasEntered THEN w
  ELSE IF ~w.viz.mounted
    THEN [w EXCEPT !.viz = animate(blockEventEffect(
            [w.viz EXCEPT !.mounted = TRUE, !.container = resize,
                          !.isBlockEvent = w.app.isBlockEvent]), <<>>).viz]
  ELSE IF w.viz.isBlockEvent = w.app.isBlockEvent THEN w
  ELSE [w EXCEPT !.viz = blockEventEffect(
          [w.viz EXCEPT !.isBlockEvent = w.app.isBlockEvent])]

(***************************************************************************)
(* useMempoolSocket: the sample window and the stress level.               *)
(***************************************************************************)
BUFFER_WINDOW == 5000
MAX_BUFFER_SIZE == 2000
MIN_FLOW == 500
MAX_FLOW == 50000
\* A flow rate is kept in fifths of a vByte per second (the vBytes of a window
\* of BUFFER_WINDOW ms are that many fifths), a stress level as its numerator
\* over StressOne.
PerSecond == BUFFER_WINDOW \div 1000
StressOne == PerSecond * (MAX_FLOW - MIN_FLOW)

\* What is not a number: the vsize of a transaction the feed sent without
\* one (undefined), and what arithmetic makes of it (NaN).
NaN == -1

\* normalizeFlowRate, of a rate in fifths of a vByte per second; Math.min and
\* Math.max of NaN are NaN.
normalizeUnclamped(rate) == rate - PerSecond * MIN_FLOW
normalizeFalling(rate) == Max(0, Min(StressOne, PerSecond * MAX_FLOW - rate))
normalizeFlowRate(rate) ==
  IF rate = NaN THEN NaN
  ELSE Max(0, Min(StressOne, rate - PerSecond * MIN_FLOW))

\* The stress level as the engines are handed it, in tenths.
inTenths(stress) == (stress * 10) \div StressOne

\* bufferRef holds runs of entries: n transactions of one vsize recorded at
\* one timestamp.  recorded is the record of all that processTransaction has
\* pushed and that the window still covers; ticks counts the runs of
\* calculateFlowRate.  The hook's effect has run: the two intervals are set
\* (polls counts the polls made by the first), connect() has made the first
\* WebSocket (sockets counts them; ws is the state of the one in wsRef) and
\* no reconnect timer is pending; live is FALSE once the cleanup has run.
NewNetwork ==
  [buffer |-> <<>>, recorded |-> <<>>, flowRate |-> 0, stressLevel |-> 0,
   ticks |-> 0,
   live |-> TRUE, pollInterval |-> TRUE, flowInterval |-> TRUE, polls |-> 0,
   ws |-> "connecting", sockets |-> 1, reconnectTimers |-> {},
   seenTxids |-> <<>>, callbacks |-> <<>>]

RECURSIVE Entries(_)
Entries(buf) == IF buf = <<>> THEN 0 ELSE Head(buf).n + Entries(Tail(buf))

\* reduce((sum, tx) => sum + tx.vsize, 0): NaN once a vsize is undefined.
RECURSIVE VBytes(_)
VBytes(buf) ==
  IF buf = <<>> THEN 0
  ELSE CHOOSE r \in
         {IF Head(buf).vsize = NaN \/ rest = NaN THEN NaN
          ELSE Head(buf).n * Head(buf).vsize + rest :
            rest \in {VBytes(Tail(buf))}} : TRUE

\* slice(-MAX_BUFFER_SIZE): the oldest entries go, excess of them.
RECURSIVE dropOldest(_, _)
dropOldest(buf, excess) ==
  IF excess <= 0 \/ buf = <<>> THEN buf
  ELSE IF Head(buf).n <= excess
    THEN dropOldest(Tail(buf), excess - Head(buf).n)
  ELSE <<[Head(buf) EXCEPT !.n = @ - excess]>> \o Tail(buf)

\* processTransaction for the k transactions of one message, none of them
\* seen before, at time t.
processTransaction(n, t, vsize, k) ==
  LET run == [timestamp |-> t, vsize |-> vsize, n |-> k]
      pushed == Append(n.buffer, run)
  IN  [n EXCEPT
         !.buffer = dropOldest(pushed, Entries(pushed) - MAX_BUFFER_SIZE),
         !.recorded = Append(@, run)]

inWindow(run, t) == run.timestamp >= t - BUFFER_WINDOW

\* setNetworkState with a flow rate and its stress level.
publish(n, rate) ==
  [n EXCEPT !.flowRate = rate, !.stressLevel = normalizeFlowRate(rate)]

\* calculateFlowRate at time t.
calculateFlowRate(n, t) ==
  LET recentTxs == SelectSeq(n.buffer, LAMBDA run : inWindow(run, t))
  IN  [publish(n, VBytes(recentTxs)) EXCEPT
         !.buffer = recentTxs,
         !.recorded = SelectSeq(@, LAMBDA run : inWindow(run, t)),
         !.ticks = @ + 1]

\* connect(): a new WebSocket.
ReconnectMs == 3000
connect(n) == [n EXCEPT !.ws = "connecting", !.sockets = @ + 1]

\* ws.onclose at time t: the reconnect timer is set.
onclose(n, t) ==
  [n EXCEPT !.ws = "closed", !.reconnectTimers = @ \cup {t + ReconnectMs}]

\* The cleanup of the hook's effect: both intervals are cleared and the
\* socket in wsRef is told to close.
cleanup(n) ==
  [n EXCEPT !.live = FALSE, !.pollInterval = FALSE, !.flowInterval = FALSE,
            !.ws = IF @ \in {"connecting", "open"} THEN "closing" ELSE @]

\* ws.onmessage with data.vBytesPerSecond.
feedFlowRate(n, vBytesPerSecond) ==
  publish(n, PerSecond * vBytesPerSecond)

\* App's effect on [networkState.stressLevel, audioState.isPlaying]: when one
\* of the two changed and the engine is playing, AudioEngine.setStressLevel
\* hands the level to the drone and to the transaction sounds.
appStressEffect(pre, w) ==
  IF /\ w.net.stressLevel = pre.net.stressLevel
     /\ w.ae.dronePlaying = pre.ae.dronePlaying
    THEN w
  ELSE IF ~w.ae.dronePlaying THEN w
  ELSE [w EXCEPT !.ae = droneSetStressLevel(@, inTenths(w.net.stressLevel)),
                 !.tse = setStressLevel(@, inTenths(w.net.stressLevel))]

\* React commits what a handler changed and runs the effects: the
\* visualizer's, then App's in the order App declares them.
commit(pre, w, t) ==
  appBlockEffect(pre, appStressEffect(pre, visualizerEffects(w)), t)

(***************************************************************************)
(* State.                                                                  *)
(***************************************************************************)
VARIABLES
  now,    \* Date.now() at the handler that ran last
  tse,    \* the TransactionSoundEngine: its fields and its pending timers
  call,   \* the triggerSound call of the handler that ran last, if it made one
  batch,  \* the forEach of the feed message being handled: the value of its
          \* transactions, the random factor its sounds draw, the calls left
  msgs,   \* feed messages delivered so far
  ae,     \* the AudioEngine
  app,    \* App: hasEntered, isBlockEvent, the pending clearBlockEvent timers
  hist,   \* what is recorded of the run (NewHistory)
  net,    \* useMempoolSocket: bufferRef and networkState
  viz,    \* the ParticleVisualizer's refs
  particles, \* particlesRef
  loop,   \* the visualizer's loop over new transactions: spawns left, spawns
          \* done so far and, when the step that ran last was a spawnParticle
          \* call, the id it spawned and the list (ids, settled) it found
  sched   \* the tab: in the foreground or not, animation ticks since the
          \* transactions last changed, the times they have changed

vars ==
  <<now, tse, call, batch, msgs, ae, app, hist, net, viz, particles, loop,
    sched>>
audioVars == <<ae, app, hist, net>>
visualVars == <<viz, particles, loop, sched>>

World ==
  [tse |-> tse, ae |-> ae, app |-> app, hist |-> hist, net |-> net,
   viz |-> viz]

\* No handler is running: the next task of the event loop may start.
Idle == batch.left = 0 /\ loop.left = 0

\* The deadlines of all pending timers of the page.
Deadlines ==
  BagToSet(tse.soundTimers) \cup BagToSet(tse.echoTimers)
    \cup BagToSet(tse.suppressTimers) \cup app.clearTimers

\* Timer callbacks run in the order of their deadlines.
Due(d) == \A x \in Deadlines : d <= x

\* The clock can reach t: no pending timer has an earlier deadline.
CanReach(t) == \A x \in Deadlines : t <= x

NoBatch == [value |-> 0, jit |-> 0, left |-> 0]
NoLoop == [left |-> 0, spawned |-> 0, pre |-> <<>>, last |-> -1]
NoSchedule == [visible |-> TRUE, frames |-> 0, runs |-> 0]

Init ==
  /\ now = T0
  /\ tse = NewEngine
  /\ call = NoCall
  /\ batch = NoBatch
  /\ msgs = 0
  /\ ae = NewAudioEngine
  /\ app = NewApp
  /\ hist = NewHistory
  /\ net = NewNetwork
  /\ viz = NewVisualizer
  /\ particles = <<>>
  /\ loop = NoLoop
  /\ sched = NoSchedule

(***************************************************************************)
(* The rate limiter on its own: TransactionSoundEngine driven directly.    *)
(***************************************************************************)
\* TransactionSoundEngine.initialize() completes.
Initialize ==
  /\ Idle
  /\ ~tse.synth
  /\ tse' = initialize(tse)
  /\ call' = NoCall
  /\ UNCHANGED <<now, batch, msgs, audioVars, visualVars>>

\* TransactionSoundEngine.setStressLevel(stress).
SetStressLevel(stress) ==
  /\ Idle
  /\ tse' = setStressLevel(tse, stress)
  /\ tse' # tse
  /\ call' = NoCall
  /\ UNCHANGED <<now, batch, msgs, audioVars, visualVars>>

\* A feed message arrives gap ms after the last event with k transactions of
\* one value; its forEach hands the first of them to triggerSound.  Only the
\* first message (the poll made when the page loads) carries a batch.
Deliver(gap, value, k, rnd, jit) ==
  /\ Idle
  /\ msgs < MaxMsgs
  /\ k > 1 => msgs = 0
  /\ CanReach(now + gap)
  /\ LET r == triggerSound(tse, now + gap, value, rnd, jit)
     IN  /\ tse' = r.eng
         /\ call' = r.call
  /\ now' = now + gap
  /\ batch' = IF k = 1 THEN NoBatch
                      ELSE [value |-> value, jit |-> jit, left |-> k - 1]
  /\ msgs' = msgs + 1
  /\ UNCHANGED <<audioVars, visualVars>>

\* The forEach of the message being handled hands its next transaction to
\* triggerSound, in the same millisecond.
TriggerNext(rnd) ==
  /\ batch.left > 0
  /\ LET r == triggerSound(tse, now, batch.value, rnd, batch.jit)
     IN  /\ tse' = r.eng
         /\ call' = r.call
  /\ batch' = IF batch.left = 1 THEN NoBatch ELSE [batch EXCEPT !.left = @ - 1]
  /\ UNCHANGED <<now, msgs, audioVars, visualVars>>

\* A variant of the timer that ends a sound: the count is left as it is.
SoundEndsUncounted(d) ==
  /\ Idle
  /\ BagIn(d, tse.soundTimers)
  /\ Due(d)
  /\ tse' = [tse EXCEPT !.soundTimers = @ (-) SetToBag({d})]
  /\ now' = d
  /\ call' = NoCall
  /\ UNCHANGED <<batch, msgs, audioVars, visualVars>>

\* The setTimeout of triggerSound that ends a sound.
SoundEnds(d) ==
  /\ Idle
  /\ BagIn(d, tse.soundTimers)
  /\ Due(d)
  /\ tse' = [tse EXCEPT !.soundTimers = @ (-) SetToBag({d}),
                        !.activeSounds = Max(0, @ - 1)]
  /\ now' = d
  /\ call' = NoCall
  /\ UNCHANGED <<batch, msgs, audioVars, visualVars>>

\* The setTimeout of triggerSound that plays a whale's sub-octave echo; call
\* records when the callback ran and whether it played.
EchoFires(d) ==
  /\ Idle
  /\ BagIn(d, tse.echoTimers)
  /\ Due(d)
  /\ tse' = [tse EXCEPT !.echoTimers = @ (-) SetToBag({d})]
  /\ now' = d
  /\ call' = [NoCall EXCEPT !.echo = echoPlays(tse), !.at = d]
  /\ UNCHANGED <<batch, msgs, audioVars, visualVars>>

NextEngine ==
  \/ Initialize
  \/ \E stress \in StressLevels : SetStressLevel(stress)
  \/ \E gap \in Gaps, m \in Messages, rnd \in BOOLEAN, jit \in Jitters :
       Deliver(gap, m[1], m[2], rnd, jit)
  \/ \E rnd \in BOOLEAN : TriggerNext(rnd)
  \/ \E d \in BagToSet(tse.soundTimers) : SoundEnds(d)
  \/ \E d \in BagToSet(tse.echoTimers) : EchoFires(d)

SpecEngine == Init /\ [][NextEngine]_vars

\* Pending timers fire; nothing obliges the feed to deliver.
EngineTimers ==
  \/ \E d \in BagToSet(tse.soundTimers) : SoundEnds(d)
  \/ \E d \in BagToSet(tse.echoTimers) : EchoFires(d)
SpecEngineFair == SpecEngine /\ WF_vars(EngineTimers)

(***************************************************************************)
(* The tones: triggerSound called with the txid and the value of a         *)
(* transaction, and the note it chooses.                                   *)
(***************************************************************************)
\* Calls of triggerSound in one behaviour.
MaxTones == 2
\* Txids: two that end in ffff, one that ends in 8000, and 0.
Txids == {0, HexFFFF, 2 * HexFFFF + 1, HexFFFF + 1 + 32768}
ToneValues == {SMALL, WHALE}
ToneJitters == {100}

\* A velocity is kept in hundred-thousandths; the random factor of
\* getVelocity, 1 + (random - 0.5) * 0.3, is drawn in percent.
VelocityOne == 100000
VelocityDraws == {85, 100, 114}

\* getVelocity, in the engine e.
getVelocityDucked(e, nv, draw) ==
  Min(VelocityOne, ((200 + (700 * nv[1]) \div nv[2]) * draw)
                     \div (1 + e.activeSounds))
getVelocity(e, nv, draw) ==
  Min(VelocityOne, (200 + (700 * nv[1]) \div nv[2]) * draw)

\* What triggerSound computes for a sound it plays, in the engine e: the
\* note, and the velocities the random factor allows; with them the sounds
\* active at the call.
tone(e, txid, value) ==
  [txid |-> txid, value |-> value,
   index |-> getFrequency(normalizeValue(value), txid),
   velocities |-> {getVelocity(e, normalizeValue(value), draw) :
                     draw \in VelocityDraws},
   active |-> e.activeSounds]

\* triggerSound(txid, value), gap ms after the last event.  hist.tones keeps,
\* of every tone played, the transaction, the note and the sounds that were
\* active when it was chosen.
Strike(gap, txid, value, rnd, jit) ==
  /\ Idle
  /\ msgs < MaxTones
  /\ CanReach(now + gap)
  /\ LET r == triggerSound(tse, now + gap, value, rnd, jit)
     IN  /\ tse' = r.eng
         /\ call' = r.call
         /\ hist' = IF ~r.call.admitted THEN hist
                    ELSE [hist EXCEPT !.tones = @ \cup {tone(tse, txid, value)}]
  /\ now' = now + gap
  /\ msgs' = msgs + 1
  /\ UNCHANGED <<batch, ae, app, net, visualVars>>

NextTone ==
  \/ Initialize
  \/ \E stress \in StressLevels : SetStressLevel(stress)
  \/ \E gap \in Gaps, txid \in Txids, value \in ToneValues, rnd \in BOOLEAN,
        jit \in ToneJitters : Strike(gap, txid, value, rnd, jit)
  \/ \E d \in BagToSet(tse.soundTimers) : SoundEnds(d)
  \/ \E d \in BagToSet(tse.echoTimers) : EchoFires(d)

SpecTone == Init /\ [][NextTone]_vars

(***************************************************************************)
(* The auxiliary layers: the bell accent and the whale echo, with the      *)
(* engine disabled, enabled or disposed while an echo is pending.          *)
(***************************************************************************)
\* Values on either side of the two thresholds.
EchoValues == {MEDIUM - 1, MEDIUM, WHALE - 1, WHALE}

\* Calls of setEnabled and dispose in one behaviour; hist.clicks counts them.
MaxSwitches == 2

\* setEnabled(enabled), gap ms after the last event.
SetEnabled(gap, enabled) ==
  /\ Idle
  /\ hist.clicks < MaxSwitches
  /\ CanReach(now + gap)
  /\ tse' = setEnabled(tse, enabled)
  /\ tse' # tse
  /\ now' = now + gap
  /\ call' = NoCall
  /\ hist' = [hist EXCEPT !.clicks = @ + 1]
  /\ UNCHANGED <<batch, msgs, ae, app, net, visualVars>>

\* dispose(), gap ms after the last event.
Dispose(gap) ==
  /\ Idle
  /\ CanReach(now + gap)
  /\ hist.clicks < MaxSwitches
  /\ tse.synth
  /\ tse' = dispose(tse)
  /\ now' = now + gap
  /\ call' = NoCall
  /\ hist' = [hist EXCEPT !.clicks = @ + 1]
  /\ UNCHANGED <<batch, msgs, ae, app, net, visualVars>>

NextEcho ==
  \/ Initialize
  \/ \E gap \in Gaps, value \in EchoValues, rnd \in BOOLEAN,
        jit \in ToneJitters : Deliver(gap, value, 1, rnd, jit)
  \/ \E gap \in Gaps, enabled \in BOOLEAN : SetEnabled(gap, enabled)
  \/ \E gap \in Gaps : Dispose(gap)
  \/ \E d \in BagToSet(tse.soundTimers) : SoundEnds(d)
  \/ \E d \in BagToSet(tse.echoTimers) : EchoFires(d)

SpecEcho == Init /\ [][NextEcho]_vars

(***************************************************************************)
(* The list of recent sounds: a long run of triggerSound calls.            *)
(***************************************************************************)
RecentLimit == 30
\* Calls of triggerSound in one behaviour, and the times (ms) between them:
\* the feed is steady, its calls come at multiples of one period, the first
\* after initialize().
MaxSounds == 80
RecentPeriods == {20}

\* recentSounds after triggerSound has pushed an event.
pushRecentDropsNewest(recent, event) ==
  IF Len(recent) >= RecentLimit THEN recent ELSE Append(recent, event)
pushRecent(recent, event) ==
  IF Len(Append(recent, event)) > RecentLimit
    THEN Tail(Append(recent, event))
    ELSE Append(recent, event)

\* triggerSound for the transaction numbered msgs, at time t.
\* hist.recentSounds is the engine's recentSounds (what getRecentSounds
\* copies), hist.played all the events triggerSound has returned.
Play(t, rnd, jit) ==
  /\ Idle
  /\ msgs < MaxSounds
  /\ CanReach(t)
  /\ LET value == txValue(msgs)
         r == triggerSound(tse, t, value, rnd, jit)
         event == [txid |-> msgs, value |-> value, timestamp |-> t]
     IN  /\ tse' = r.eng
         /\ call' = r.call
         /\ hist' = IF ~r.call.admitted THEN hist
                    ELSE [hist EXCEPT
                            !.recentSounds = pushRecent(@, event),
                            !.played = Append(@, event)]
  /\ now' = t
  /\ msgs' = msgs + 1
  /\ UNCHANGED <<batch, ae, app, net, visualVars>>

\* A timer fires before the calls that come after its deadline.
BeforeNextCall(d) ==
  msgs = MaxSounds \/ \E period \in RecentPeriods : d <= T0 + period * (msgs + 1)

NextRecent ==
  \/ Initialize
  \/ \E period \in RecentPeriods, rnd \in BOOLEAN, jit \in ToneJitters :
       tse.synth /\ Play(T0 + period * (msgs + 1), rnd, jit)
  \/ \E d \in BagToSet(tse.soundTimers) : BeforeNextCall(d) /\ SoundEnds(d)
  \/ \E d \in BagToSet(tse.echoTimers) : BeforeNextCall(d) /\ EchoFires(d)

SpecRecent == Init /\ [][NextRecent]_vars

(***************************************************************************)
(* The melodies: MelodyEngine driven directly.                             *)
(***************************************************************************)
\* Calls of triggerMelody in one behaviour.
MaxMelodyCalls == 3
MelodyGaps == {MELODY_COOLDOWN - 1, MELODY_COOLDOWN}
MelodyValues ==
  {SMALL_WHALE - 1, SMALL_WHALE, SMALL_WHALE + 1, MEDIUM_WHALE, LARGE_WHALE}
\* Txids: two that end in the same 8 characters (0f1e2d3c) and differ in the
\* pair before them, one of other pairs (fe0e0f10), and zeros.
MelodyTxids ==
  {<<0, 0, 0, 0, 0>>, <<0, 15, 30, 45, 60>>, <<1, 15, 30, 45, 60>>,
   <<0, 254, 14, 15, 16>>}

\* MelodyEngine.initialize() completes.
MelodyInitialize ==
  /\ ~hist.melody.synth
  /\ hist' = [hist EXCEPT !.melody.synth = TRUE]
  /\ UNCHANGED <<now, tse, call, batch, msgs, ae, app, net, visualVars>>

\* triggerMelody(txid, value), gap ms after the last call.
TriggerMelody(gap, txid, value) ==
  /\ msgs < MaxMelodyCalls
  /\ hist' = [hist EXCEPT !.melody = triggerMelody(@, now + gap, txid, value)]
  /\ now' = now + gap
  /\ msgs' = msgs + 1
  /\ UNCHANGED <<tse, call, batch, ae, app, net, visualVars>>

NextMelody ==
  \/ MelodyInitialize
  \/ \E gap \in MelodyGaps, txid \in MelodyTxids, value \in MelodyValues :
       TriggerMelody(gap, txid, value)

SpecMelody == Init /\ [][NextMelody]_vars

\* The mapping on its own: getFrequency for a transaction, whatever the
\* engine does with it.  hist.tones holds the last result.
MapValues ==
  {DUST, DUST + 1, TINY, SMALL, MEDIUM, LARGE, WHALE, MEGA - 1, MEGA,
   MEGA + 1, 2 * MEGA}
\* Txids whose last four digits lie at the two ends, in the middle and on
\* either side of the places where the rounded offset changes.
MapTxids ==
  {0, 8191, 8192, 24575, 24576, 32768, 40959, 40960, 57343, 57344, HexFFFF,
   HexFFFF + 1 + 57344}

MapSound(txid, value) ==
  /\ hist' = [hist EXCEPT !.tones = {tone(tse, txid, value)}]
  /\ UNCHANGED <<now, tse, call, batch, msgs, ae, app, net, visualVars>>

NextMap == \E txid \in MapTxids, value \in MapValues : MapSound(txid, value)

SpecMap == Init /\ [][NextMap]_vars

(***************************************************************************)
(* The session: App, the AudioEngine and the visualizer's block animation, *)
(* driven by the user, the feed and the timers.                            *)
(***************************************************************************)
\* Delays (ms) between one event of the session and the next.
SessionGaps == {1000}
\* Values of the transactions the feed delivers in a session, and the jitter
\* (percent) drawn for their sounds.
SessionValues == {SMALL, WHALE}
SessionJitters == {100}
\* The vsize of the transactions of the session.
SessionVsize == 250
\* Clicks and block notifications in one run.
MaxClicks == 4
MaxBlocks == 2

\* The transaction effect of App has its callback subscribed.
Subscribed == ae.dronePlaying /\ ae.transactionSoundsEnabled

\* A handler that ran at time t leaves the world w: React commits it.
Leaves(w, t) ==
  LET c == commit(World, w, t)
  IN  /\ tse' = c.tse
      /\ ae' = c.ae
      /\ app' = c.app
      /\ hist' = c.hist
      /\ net' = c.net
      /\ viz' = c.viz
      /\ now' = t
      /\ call' = NoCall
      /\ UNCHANGED <<batch, msgs, particles, loop, sched>>

\* The display of the session is fast: a block animation that has started
\* runs its ticks before the next event.  A tick outside a block animation
\* finds no particle and changes nothing.
Animating == viz.mounted /\ viz.blockEventRef

\* A click, gap ms after the last event.
Click(gap) ==
  /\ Idle
  /\ ~Animating
  /\ hist.clicks < MaxClicks
  /\ CanReach(now + gap)

\* handleEnter: initialize() builds the three engines, start() starts the
\* drone, and the main screen with the visualizer is shown.
Enter(gap) ==
  /\ Click(gap)
  /\ ~app.hasEntered
  /\ Leaves([World EXCEPT !.tse = IF @.synth THEN @ ELSE initialize(@),
                          !.ae = start([@ EXCEPT !.isInitialized = TRUE]),
                          !.app.hasEntered = TRUE,
                          !.hist.clicks = @ + 1], now + gap)

\* handleTogglePlay: stop() when playing, start() when not.
TogglePlay(gap) ==
  /\ Click(gap)
  /\ app.hasEntered
  /\ Leaves([World EXCEPT !.ae = IF @.dronePlaying THEN stop(@) ELSE start(@),
                          !.hist.clicks = @ + 1], now + gap)

\* The drone button: toggleDrone().
ToggleDrone(gap) ==
  /\ Click(gap)
  /\ app.hasEntered
  /\ Leaves([World EXCEPT !.ae = toggleDrone(@),
                          !.hist.clicks = @ + 1], now + gap)

\* The transaction-sounds button: toggleTransactionSounds().
ToggleTransactionSounds(gap) ==
  /\ Click(gap)
  /\ app.hasEntered
  /\ Leaves([World EXCEPT
               !.ae.transactionSoundsEnabled = ~@,
               !.tse = setEnabled(@, ~ae.transactionSoundsEnabled),
               !.hist.clicks = @ + 1], now + gap)

\* The bowl button: toggleBowl().
ToggleBowl(gap) ==
  /\ Click(gap)
  /\ app.hasEntered
  /\ Leaves([World EXCEPT !.ae.bowlEnabled = ~@,
                          !.hist.clicks = @ + 1], now + gap)

\* ws.onmessage with a block: setIsBlockEvent(true).  The strikes are counted
\* anew when the flag rises.
BlockNotification(gap) ==
  /\ Idle
  /\ ~Animating
  /\ hist.blocks < MaxBlocks
  /\ CanReach(now + gap)
  /\ Leaves([World EXCEPT
               !.app.isBlockEvent = TRUE,
               !.hist.strikes = IF app.isBlockEvent THEN @ ELSE 0,
               !.hist.blocks = @ + 1], now + gap)

\* A transaction arrives from the feed: processTransaction records it, and
\* App's callback, if subscribed, calls AudioEngine.triggerTransactionSound.
FeedTransaction(gap, value, rnd, jit) ==
  /\ Idle
  /\ ~Animating
  /\ msgs < MaxMsgs
  /\ CanReach(now + gap)
  /\ IF ~Subscribed
       THEN call' = NoCall /\ tse' = tse
     ELSE IF ~ae.isInitialized \/ ~ae.transactionSoundsEnabled
       THEN call' = CallRecord(tse, now + gap, value, FALSE) /\ tse' = tse
     ELSE LET r == triggerSound(tse, now + gap, value, rnd, jit)
          IN  tse' = r.eng /\ call' = r.call
  /\ net' = processTransaction(net, now + gap, SessionVsize, 1)
  /\ now' = now + gap
  /\ msgs' = msgs + 1
  /\ UNCHANGED <<batch, ae, app, hist, visualVars>>

\* The setTimeout of suppress: transaction sounds are enabled again.
SuppressEnds(d) ==
  /\ Idle
  /\ BagIn(d, tse.suppressTimers)
  /\ Due(d)
  /\ tse' = [tse EXCEPT !.suppressTimers = @ (-) SetToBag({d}),
                        !.isEnabled = TRUE]
  /\ now' = d
  /\ call' = NoCall
  /\ UNCHANGED <<batch, msgs, audioVars, visualVars>>

\* The setTimeout of App's block effect: clearBlockEvent.
ClearBlockEvent(d) ==
  /\ Idle
  /\ d \in app.clearTimers
  /\ Due(d)
  /\ Leaves([World EXCEPT !.app.isBlockEvent = FALSE,
                          !.app.clearTimers = @ \ {d}], d)

\* requestAnimationFrame calls animate.  How the ticks are paced is left to
\* the specification.
AnimationFrame ==
  /\ Idle
  /\ viz.mounted
  /\ LET r == animate(viz, particles)
     IN  /\ viz' = r.viz
         /\ particles' = r.particles
  /\ call' = NoCall
  /\ loop' = [loop EXCEPT !.pre = <<>>, !.last = -1]
  /\ UNCHANGED <<now, tse, batch, msgs, audioVars>>

SessionFrame == Animating /\ AnimationFrame /\ UNCHANGED sched

SessionTimers ==
  \/ \E d \in BagToSet(tse.soundTimers) : ~Animating /\ SoundEnds(d)
  \/ \E d \in BagToSet(tse.echoTimers) : ~Animating /\ EchoFires(d)
  \/ \E d \in BagToSet(tse.suppressTimers) : ~Animating /\ SuppressEnds(d)
  \/ \E d \in app.clearTimers : ~Animating /\ ClearBlockEvent(d)

NextSession ==
  \/ \E gap \in SessionGaps : Enter(gap)
  \/ \E gap \in SessionGaps : TogglePlay(gap)
  \/ \E gap \in SessionGaps : ToggleDrone(gap)
  \/ \E gap \in SessionGaps : ToggleTransactionSounds(gap)
  \/ \E gap \in SessionGaps : ToggleBowl(gap)
  \/ \E gap \in SessionGaps : BlockNotification(gap)
  \/ \E gap \in SessionGaps, value \in SessionValues, rnd \in BOOLEAN,
        jit \in SessionJitters : FeedTransaction(gap, value, rnd, jit)
  \/ SessionTimers
  \/ SessionFrame

SpecSession == Init /\ [][NextSession]_vars

\* Pending timers fire and the animation loop keeps running; nothing obliges
\* the user or the feed to act.
SpecSessionFair ==
  SpecSession /\ WF_vars(SessionTimers) /\ WF_vars(SessionFrame)

\* The session with the transaction-sounds button only, and with events that
\* follow one another closely: a click within the delay of a whale's echo
\* after the last event, a transaction shortly before a second is full.
ShortGap == 30
QuickGaps == SessionGaps \cup {ShortGap}
LateGaps == SessionGaps \cup {1000 - (EchoDelay - ShortGap)}

NextFlag ==
  \/ \E gap \in SessionGaps : Enter(gap)
  \/ \E gap \in QuickGaps : ToggleTransactionSounds(gap)
  \/ \E gap \in SessionGaps : BlockNotification(gap)
  \/ \E gap \in LateGaps, value \in SessionValues, rnd \in BOOLEAN,
        jit \in SessionJitters : FeedTransaction(gap, value, rnd, jit)
  \/ SessionTimers
  \/ SessionFrame

SpecFlag == Init /\ [][NextFlag]_vars

\* The session with the volume slider and with the stress level the hook
\* publishes.
Volumes == {50, 150}
\* Rates the feed supplies here: they make whole tenths of stress.
SessionRates == {MIN_FLOW, MAX_FLOW}

\* The volume slider: setVolume(volume).
SetVolume(gap, volume) ==
  /\ Click(gap)
  /\ app.hasEntered
  /\ Leaves([World EXCEPT !.ae = setVolume(@, volume),
                          !.hist.volumeSet = TRUE,
                          !.hist.clicks = @ + 1], now + gap)

\* ws.onmessage with data.vBytesPerSecond: the hook publishes the rate and
\* its stress level, and App renders them.
FeedFlowRate(vBytesPerSecond) ==
  /\ Idle
  /\ ~Animating
  /\ feedFlowRate(net, vBytesPerSecond).flowRate # net.flowRate
  /\ Leaves([World EXCEPT !.net = feedFlowRate(@, vBytesPerSecond)], now)

NextVolume ==
  \/ \E gap \in SessionGaps : Enter(gap)
  \/ \E gap \in SessionGaps, volume \in Volumes : SetVolume(gap, volume)
  \/ \E rate \in SessionRates : FeedFlowRate(rate)
  \/ \E gap \in SessionGaps : BlockNotification(gap)
  \/ \E gap \in SessionGaps, value \in SessionValues, rnd \in BOOLEAN,
        jit \in SessionJitters : FeedTransaction(gap, value, rnd, jit)
  \/ SessionTimers
  \/ SessionFrame

SpecVolume == Init /\ [][NextVolume]_vars

(***************************************************************************)
(* The particles: the visualizer fed by the transaction feed, with the tab *)
(* in the foreground or not.                                               *)
(***************************************************************************)
\* calculateFlowRate runs every FlowInterval ms and hands the visualizer the
\* last SpawnBatch transactions; here all of them are new each time.
FlowInterval == 500
SpawnBatch == 10
\* Animation ticks between two runs of calculateFlowRate in the foreground.
FramesPerRun == 30
\* Runs of calculateFlowRate in one behaviour.
MaxRuns == 34
\* The runs it takes to fill the particle list beyond its cap.
FillRuns == MAX_PARTICLES \div SpawnBatch + 1
\* After how many runs the tab may go to the background, come back, and a
\* block may be notified (one block, with the tab in the foreground).
HideAt == {0}
ShowAt == {FillRuns}
BlockAt == {2}
\* The numbers the feed may start from.
FeedStarts == {0, TowerFrom}
\* How many ticks' time into the interval between two runs it comes back.
ShowPhases == {25}

\* What a spawnParticle call finds: the ids in the list and which are settled.
Marks(ps) ==
  IF ps = <<>> THEN <<>>
  ELSE [i \in 1..Len(ps) |-> [id |-> ps[i].id, settled |-> ps[i].settled]]

\* One spawnParticle call of the loop over the new transactions, for the
\* transaction numbered n.
Spawn(n) ==
  /\ particles' = spawnParticle(particles, viz.container, n)
  /\ loop' = [left |-> IF loop.left = 0 THEN SpawnBatch - 1 ELSE loop.left - 1,
              spawned |-> n + 1,
              pre |-> Marks(particles),
              last |-> n]
  /\ call' = NoCall
  /\ UNCHANGED <<tse, batch, msgs, audioVars, viz>>

\* The transactions prop has changed: the effect starts its loop.  The feed
\* numbers its transactions from first on.
TransactionsChange(first) ==
  /\ first = loop.spawned \/ sched.runs = 0
  /\ Idle
  /\ viz.mounted
  /\ sched.runs < MaxRuns
  /\ ~sched.visible \/ sched.frames = FramesPerRun
  /\ CanReach(now + FlowInterval)
  /\ now' = now + FlowInterval
  /\ sched' = [sched EXCEPT !.runs = @ + 1, !.frames = 0]
  /\ Spawn(first)

\* The loop goes on to the next new transaction.
SpawnNext ==
  /\ loop.left > 0
  /\ Spawn(loop.spawned)
  /\ UNCHANGED <<now, sched>>

\* In the foreground the ticks come FramesPerRun to a run; in the background
\* requestAnimationFrame does not call back.
ParticlesFrame ==
  /\ sched.visible
  /\ sched.frames < FramesPerRun \/ sched.runs = MaxRuns
  /\ AnimationFrame
  /\ sched' = [sched EXCEPT !.frames = Min(@ + 1, FramesPerRun)]

\* The user switches to another tab, and back.
Hide ==
  /\ Idle
  /\ viz.mounted
  /\ sched.visible
  /\ sched.frames = 0
  /\ sched.runs \in HideAt
  /\ sched' = [sched EXCEPT !.visible = FALSE]
  /\ call' = NoCall
  /\ UNCHANGED <<now, tse, batch, msgs, audioVars, viz, particles, loop>>

Show(phase) ==
  /\ Idle
  /\ ~sched.visible
  /\ sched.runs \in ShowAt
  /\ sched' = [sched EXCEPT !.visible = TRUE, !.frames = phase]
  /\ call' = NoCall
  /\ UNCHANGED <<now, tse, batch, msgs, audioVars, viz, particles, loop>>

\* calculateFlowRate keeps its interval: a timer fires once the runs have
\* reached its deadline.
NextParticles ==
  \/ \E gap \in SessionGaps : Enter(gap)
  \/ Hide
  \/ \E phase \in ShowPhases : Show(phase)
  \/ \E first \in FeedStarts \cup {loop.spawned} : TransactionsChange(first)
  \/ SpawnNext
  \/ ParticlesFrame
  \/ /\ sched.visible /\ sched.frames = 0
     /\ sched.runs \in BlockAt /\ hist.blocks = 0
     /\ BlockNotification(0)
  \/ \E d \in BagToSet(tse.suppressTimers) : d <= now /\ SuppressEnds(d)
  \/ \E d \in app.clearTimers : d <= now /\ ClearBlockEvent(d)

SpecParticles == Init /\ [][NextParticles]_vars

(***************************************************************************)
(* The stress estimator: the hook on its own, before the user has entered. *)
(***************************************************************************)
\* Runs of calculateFlowRate in one behaviour: a transaction recorded before
\* the first run has left the window by the last.
MaxTicks == 12
\* Delays (ms) between the last event and a feed message.
FlowGaps == {100, FlowInterval}
\* The vsize and the number of the transactions of one feed message.
FlowMessages ==
  {<<12500, 1>>, <<250, MAX_BUFFER_SIZE + 1>>, <<12500, MAX_BUFFER_SIZE + 1>>}
\* The rates (vBytes per second) the feed supplies.
FeedRates == {0, (MIN_FLOW + MAX_FLOW) \div 2, 100 * MAX_FLOW}

\* The time of the next run of calculateFlowRate.
nextTick == T0 + FlowInterval * (net.ticks + 1)

\* setInterval(calculateFlowRate, 500) fires.
FlowTick ==
  /\ Idle
  /\ net.flowInterval
  /\ net.ticks < MaxTicks
  /\ CanReach(nextTick)
  /\ Leaves([World EXCEPT !.net = calculateFlowRate(@, nextTick)], nextTick)

\* ws.onmessage with data.transactions, or the answer to a poll: k new
\* transactions, each handed to processTransaction; no callback is
\* registered.
FeedBatch(gap, vsize, k) ==
  /\ Idle
  /\ ~Subscribed
  /\ msgs < MaxMsgs
  /\ now + gap <= nextTick
  /\ CanReach(now + gap)
  /\ net' = processTransaction(net, now + gap, vsize, k)
  /\ now' = now + gap
  /\ msgs' = msgs + 1
  /\ call' = NoCall
  /\ UNCHANGED <<tse, batch, ae, app, hist, visualVars>>

NextFlow ==
  \/ FlowTick
  \/ \E gap \in FlowGaps, m \in FlowMessages : FeedBatch(gap, m[1], m[2])
  \/ \E rate \in FeedRates : FeedFlowRate(rate)

SpecFlow == Init /\ [][NextFlow]_vars

(***************************************************************************)
(* The feed, the sounds and the display together: a transaction goes to    *)
(* the buffer and to App's callback, calculateFlowRate publishes the last  *)
(* ten of the window, the visualizer spawns those it has not seen.         *)
(***************************************************************************)
\* Delays (ms) between the last event and the next click or transaction.
DisplayGaps == {minCooldown - 1, 100}

\* The feed numbers its transactions, here from the first whale on (msgs
\* counts them), and sends one a message: the entries of the buffer are the
\* last ones sent.
DisplayFrom == SpawnBatch - 1
txidAt(buf, i) == DisplayFrom + msgs - Len(buf) + i - 1

\* recentTxs.slice(-10), as txids.
recentTransactions(buf) ==
  [i \in 1..Min(SpawnBatch, Len(buf)) |->
     txidAt(buf, Len(buf) - Min(SpawnBatch, Len(buf)) + i)]

\* The loop of the visualizer's effect over the transactions it has not
\* processed.
RECURSIVE spawnEach(_, _, _)
spawnEach(ps, container, txids) ==
  IF txids = <<>> THEN ps
  ELSE spawnEach(spawnParticle(ps, container, Head(txids)), container,
                 Tail(txids))

\* The next transaction arrives: processTransaction pushes it and hands it
\* to App's callback, if one is registered, and that to
\* triggerTransactionSound.  hist.tones keeps the sounds played.
FeedOne(gap, rnd, jit) ==
  /\ Idle
  /\ viz.mounted
  /\ msgs < MaxMsgs
  /\ now + gap <= nextTick
  /\ CanReach(now + gap)
  /\ LET txid == DisplayFrom + msgs
         value == txValue(txid)
         r == IF ~Subscribed
                THEN [eng |-> tse, call |-> NoCall]
              ELSE IF ~ae.isInitialized \/ ~ae.transactionSoundsEnabled
                THEN [eng |-> tse,
                      call |-> CallRecord(tse, now + gap, value, FALSE)]
              ELSE triggerSound(tse, now + gap, value, rnd, jit)
     IN  /\ tse' = r.eng
         /\ call' = r.call
         /\ hist' = IF ~r.call.admitted THEN hist
                    ELSE [hist EXCEPT !.tones = @ \cup {tone(tse, txid, value)}]
  /\ net' = processTransaction(net, now + gap, SessionVsize, 1)
  /\ now' = now + gap
  /\ msgs' = msgs + 1
  /\ UNCHANGED <<batch, ae, app, visualVars>>

\* setInterval(calculateFlowRate, 500) fires: the window is cut, the rate and
\* the stress level are published, and so are the last ten transactions;
\* the effect of the visualizer spawns those it has not processed.
DisplayTick ==
  /\ Idle
  /\ net.flowInterval
  /\ net.ticks < MaxTicks
  /\ CanReach(nextTick)
  /\ LET n1 == calculateFlowRate(net, nextTick)
         c == commit(World, [World EXCEPT !.net = n1], nextTick)
         unseen == SelectSeq(recentTransactions(n1.buffer),
                             LAMBDA txid : txid >= loop.spawned)
     IN  /\ tse' = c.tse
         /\ ae' = c.ae
         /\ app' = c.app
         /\ hist' = c.hist
         /\ net' = c.net
         /\ viz' = c.viz
         /\ particles' = IF viz.mounted
                           THEN spawnEach(particles, viz.container, unseen)
                           ELSE particles
         /\ loop' = IF viz.mounted /\ unseen # <<>>
                      THEN [loop EXCEPT !.spawned = unseen[Len(unseen)] + 1]
                      ELSE loop
  /\ now' = nextTick
  /\ call' = NoCall
  /\ UNCHANGED <<batch, msgs, sched>>

NextDisplay ==
  \/ \E gap \in DisplayGaps : now + gap <= nextTick /\ Enter(gap)
  \/ \E gap \in DisplayGaps, rnd \in BOOLEAN, jit \in SessionJitters :
       FeedOne(gap, rnd, jit)
  \/ DisplayTick
  \/ \E d \in BagToSet(tse.soundTimers) : d <= nextTick /\ SoundEnds(d)
  \/ \E d \in BagToSet(tse.echoTimers) : d <= nextTick /\ EchoFires(d)

SpecDisplay == Init /\ [][NextDisplay]_vars

(***************************************************************************)
(* The life of the hook: its intervals, its WebSocket and the cleanup.     *)
(***************************************************************************)
POLL_INTERVAL == 1000
\* WebSockets made in one behaviour.
MaxSockets == 3
\* Delays (ms) between the last event and an event of the socket or the
\* unmounting of the hook.
HookGaps == {100}

\* The time of the next poll.
nextPoll == T0 + POLL_INTERVAL * (net.polls + 1)

\* The deadlines of the hook's timers, and the times the clock can reach.
HookDeadlines ==
  (IF net.flowInterval THEN {nextTick} ELSE {})
    \cup (IF net.pollInterval THEN {nextPoll} ELSE {})
    \cup net.reconnectTimers
HookCanReach(t) == CanReach(t) /\ \A x \in HookDeadlines : t <= x

\* A step of the hook that changes net only.
HookStep(n, t) ==
  /\ Idle
  /\ HookCanReach(t)
  /\ net' = n
  /\ now' = t
  /\ call' = NoCall
  /\ UNCHANGED <<tse, batch, msgs, ae, app, hist, visualVars>>

\* setInterval(pollRecentTransactions, POLL_INTERVAL) fires; the feed has
\* nothing new.
PollTick ==
  /\ net.pollInterval
  /\ HookStep([net EXCEPT !.polls = @ + 1], nextPoll)

\* setInterval(calculateFlowRate, 500) fires, no other timer being due.
HookFlowTick == HookCanReach(nextTick) /\ FlowTick

\* The socket opens.
WsOpens(gap) ==
  /\ net.ws = "connecting"
  /\ HookStep([net EXCEPT !.ws = "open"], now + gap)

\* The socket closes: the connection failed or was lost, or close() has
\* done its work; ws.onclose runs.
WsCloses(gap) ==
  /\ net.ws \in {"connecting", "open", "closing"}
  /\ HookStep(onclose(net, now + gap), now + gap)

\* The reconnect timer fires: connect().
Reconnect(d) ==
  /\ d \in net.reconnectTimers
  /\ net.sockets < MaxSockets
  /\ HookStep(connect([net EXCEPT !.reconnectTimers = @ \ {d}]), d)

\* The component that uses the hook is unmounted.
Teardown(gap) ==
  /\ net.live
  /\ HookStep(cleanup(net), now + gap)

NextHook ==
  \/ PollTick
  \/ HookFlowTick
  \/ \E gap \in HookGaps : WsOpens(gap)
  \/ \E gap \in HookGaps : WsCloses(gap)
  \/ \E d \in net.reconnectTimers : Reconnect(d)
  \/ \E gap \in HookGaps : Teardown(gap)

SpecHook == Init /\ [][NextHook]_vars

\* The fee rate processTransaction gives a transaction, fee / vsize, kept as
\* the two numbers: with vsize 0 the quotient is Infinity (fee above 0) or
\* NaN (fee 0), and no number is above it or it is below none.
feeRate(fee, vsize) == [num |-> fee, den |-> vsize]
below(rate, limit) == rate.den > 0 /\ rate.num < limit * rate.den

\* getFeeColor.
getFeeColor(rate) ==
  IF below(rate, 5) THEN "#3B82F6"
  ELSE IF below(rate, 15) THEN "#14B8A6"
  ELSE IF below(rate, 30) THEN "#22C55E"
  ELSE IF below(rate, 50) THEN "#EAB308"
  ELSE IF below(rate, 100) THEN "#F97316"
  ELSE "#EF4444"

\* Fees (sat) and sizes (vBytes) on either side of the bands' limits.
Fees == {0, 1, 499, 500, 1499, 1500, 2999, 3000, 4999, 5000, 9999, 10000}
FeeVsizes == {0, 1, 99, 100, 101, 250, 1000, 12500, 100000}

\* A transaction with this fee and vsize is processed and later spawned as a
\* particle: hist.fees holds the colour it is given.
ColourParticle(fee, vsize) ==
  /\ hist' = [hist EXCEPT !.fees =
       {[fee |-> fee, vsize |-> vsize,
         color |-> getFeeColor(feeRate(fee, vsize))]}]
  /\ UNCHANGED <<now, tse, call, batch, msgs, ae, app, net, visualVars>>

NextFee == \E fee \in Fees, vsize \in FeeVsizes : ColourParticle(fee, vsize)

SpecFee == Init /\ [][NextFee]_vars

\* The feed with messages whose transaction has no vsize.
IngestMessages == {<<12500, 1>>, <<NaN, 1>>}

NextIngest ==
  \/ FlowTick
  \/ \E gap \in FlowGaps, m \in IngestMessages : FeedBatch(gap, m[1], m[2])

SpecIngest == Init /\ [][NextIngest]_vars

(***************************************************************************)
(* The intake of the hook: processTransaction with its set of seen txids   *)
(* and the callbacks registered with onTransaction.                        *)
(***************************************************************************)
\* The set of seen txids is cut to its newest SeenKept once it holds more
\* than SeenMax.
SeenMax == 10000
SeenKept == 5000
\* Txids are numbered in the order the network issued them.  A list of
\* txids in insertion order (the Set of seen txids, the txids appended so
\* far) is kept as its runs of consecutive numbers.
RECURSIVE runsLen(_)
runsLen(rs) ==
  IF rs = <<>> THEN 0 ELSE Head(rs).to - Head(rs).from + 1 + runsLen(Tail(rs))
runsHas(rs, x) == \E i \in DOMAIN rs : rs[i].from <= x /\ x <= rs[i].to
runsAdd(rs, x) ==
  IF rs # <<>> /\ rs[Len(rs)].to + 1 = x
    THEN [rs EXCEPT ![Len(rs)].to = x]
    ELSE Append(rs, [from |-> x, to |-> x])
\* slice(excess): the oldest excess members go.
RECURSIVE runsDrop(_, _)
runsDrop(rs, excess) ==
  IF excess <= 0 \/ rs = <<>> THEN rs
  ELSE LET n == Head(rs).to - Head(rs).from + 1
       IN  IF n <= excess THEN runsDrop(Tail(rs), excess - n)
           ELSE <<[Head(rs) EXCEPT !.from = @ + excess]>> \o Tail(rs)

\* The callbacks that throw when they are called.
Throws(cb) == cb = "faulty"

\* emitTransaction without its try/catch: the first callback that throws
\* ends the forEach, and the exception leaves emitTransaction.
RECURSIVE emitTransactionUnguarded(_, _)
emitTransactionUnguarded(cbs, txid) ==
  IF cbs = <<>> THEN [delivered |-> <<>>, thrown |-> FALSE]
  ELSE IF Throws(Head(cbs))
    THEN [delivered |-> <<<<Head(cbs), txid>>>>, thrown |-> TRUE]
  ELSE LET rest == emitTransactionUnguarded(Tail(cbs), txid)
       IN  [rest EXCEPT !.delivered = <<<<Head(cbs), txid>>>> \o @]

\* emitTransaction: every registered callback is called, in the order of
\* registration; what a callback throws is caught and logged.
RECURSIVE emitTransaction(_, _)
emitTransaction(cbs, txid) ==
  IF cbs = <<>> THEN [delivered |-> <<>>, thrown |-> FALSE]
  ELSE LET rest == emitTransaction(Tail(cbs), txid)
       IN  [rest EXCEPT !.delivered = <<<<Head(cbs), txid>>>> \o @]

\* push(transaction), with the buffer kept as runs: n transactions of one
\* timestamp and vsize with consecutive txids, the last of them txid.
pushRun(buf, run) ==
  IF /\ buf # <<>>
     /\ buf[Len(buf)].timestamp = run.timestamp
     /\ buf[Len(buf)].vsize = run.vsize
     /\ buf[Len(buf)].txid + 1 = run.txid
    THEN [buf EXCEPT ![Len(buf)].n = @ + 1, ![Len(buf)].txid = run.txid]
    ELSE Append(buf, run)
\* The buffer holds the transaction txid.
buffered(buf, txid) ==
  \E i \in DOMAIN buf : buf[i].txid - buf[i].n < txid /\ txid <= buf[i].txid

\* processTransaction for one transaction at time t.  w holds the hook (net),
\* the txids appended so far, the calls of callbacks made by the handler that
\* is running, and whether an exception has left the call.
processOne(w, t, txid, vsize) ==
  IF runsHas(w.net.seenTxids, txid) THEN w
  ELSE LET added == runsAdd(w.net.seenTxids, txid)
           seen == IF runsLen(added) > SeenMax
                     THEN runsDrop(added, runsLen(added) - SeenKept)
                     ELSE added
           run == [timestamp |-> t, vsize |-> vsize, n |-> 1, txid |-> txid]
           pushed == pushRun(w.net.buffer, run)
           e == emitTransaction(w.net.callbacks, txid)
       IN  [net |-> [w.net EXCEPT
                       !.seenTxids = seen,
                       !.buffer = dropOldest(pushed, Entries(pushed) - MAX_BUFFER_SIZE),
                       !.recorded = pushRun(@, run)],
            appended |-> runsAdd(w.appended, txid),
            delivered |-> w.delivered \o e.delivered,
            thrown |-> e.thrown]

\* transactions.forEach(processTransaction): an exception ends the forEach
\* (the handler's try/catch takes it).
RECURSIVE processEach(_, _, _, _)
processEach(w, t, txids, vsize) ==
  IF txids = <<>> \/ w.thrown THEN w
  ELSE CHOOSE r \in {processEach(x, t, Tail(txids), vsize) :
                       x \in {processOne(w, t, Head(txids), vsize)}} : TRUE

\* onTransaction(callback) and the function it returns.
subscribe(n, cb) ==
  IF \E i \in DOMAIN n.callbacks : n.callbacks[i] = cb THEN n
  ELSE [n EXCEPT !.callbacks = Append(@, cb)]
unsubscribe(n, cb) ==
  [n EXCEPT !.callbacks = SelectSeq(@, LAMBDA c : c # cb)]

\* The callbacks that register in one behaviour: App's, and one that throws.
Callbacks == {"app", "faulty"}
\* The answer to a poll lists PollSize transactions; the polls of one
\* behaviour.
PollSize == 10
MaxPolls == SeenMax \div PollSize + 2
\* What a WebSocket message carries of the next answer before the poll.
WsShare == 3
\* Old txids that the feed may list again.
StaleTxids == {0}

\* The answer to the poll after `polls` polls: the next PollSize txids.
Recent(polls) == [i \in 1 .. PollSize |-> PollSize * polls + i - 1]
Answers(polls) ==
  {Recent(polls)} \cup {<<x>> \o Recent(polls) : x \in StaleTxids}

\* The handler of a message or of an answer: its transactions are handed to
\* processTransaction at time t; hist.handled holds the list and the calls of
\* callbacks it made.
Handle(n, t, txids) ==
  LET w == CHOOSE r \in {processEach(x, t, txids, SessionVsize) :
                          x \in {[net |-> n, appended |-> hist.appended,
                                   delivered |-> <<>>, thrown |-> FALSE]}} : TRUE
  IN  /\ Idle
      /\ CanReach(t)
      /\ net' = w.net
      /\ hist' = [hist EXCEPT !.appended = w.appended,
                              !.handled = [answer |-> txids,
                                           delivered |-> w.delivered]]
      /\ now' = t
      /\ call' = NoCall
      /\ UNCHANGED <<tse, batch, msgs, ae, app, visualVars>>

\* A step of the intake that runs no processTransaction.
Quiet(n, t) ==
  /\ Idle
  /\ CanReach(t)
  /\ net' = n
  /\ hist' = [hist EXCEPT !.handled = NewHistory.handled]
  /\ now' = t
  /\ call' = NoCall
  /\ UNCHANGED <<tse, batch, msgs, ae, app, visualVars>>

\* setInterval(pollRecentTransactions, POLL_INTERVAL) fires and the answer
\* arrives.
IntakePoll(answer) ==
  /\ net.pollInterval
  /\ net.polls < MaxPolls
  /\ nextPoll <= nextTick
  /\ Handle([net EXCEPT !.polls = @ + 1], nextPoll, answer)

\* ws.onmessage with data.transactions, just before the poll that will list
\* the same transactions.
IntakeWs ==
  /\ net.ws = "open"
  /\ net.polls < MaxPolls
  /\ nextPoll <= nextTick
  /\ ~runsHas(net.seenTxids, Recent(net.polls)[1])
  /\ Handle(net, nextPoll, SubSeq(Recent(net.polls), 1, WsShare))

\* setInterval(calculateFlowRate, 500) fires.
IntakeFlowTick ==
  /\ net.flowInterval
  /\ net.polls < MaxPolls
  /\ nextTick <= nextPoll
  /\ Quiet(calculateFlowRate(net, nextTick), nextTick)

\* The socket opens before the first poll.
IntakeWsOpens ==
  /\ net.ws = "connecting"
  /\ net.polls = 0
  /\ Quiet([net EXCEPT !.ws = "open"], now)

Subscribe(cb) ==
  /\ subscribe(net, cb) # net
  /\ Quiet(subscribe(net, cb), now)

Unsubscribe(cb) ==
  /\ unsubscribe(net, cb) # net
  /\ Quiet(unsubscribe(net, cb), now)

NextIntake ==
  \/ \E answer \in Answers(net.polls) : IntakePoll(answer)
  \/ IntakeWs
  \/ IntakeFlowTick
  \/ IntakeWsOpens
  \/ \E cb \in Callbacks : Subscribe(cb)
  \/ \E cb \in Callbacks : Unsubscribe(cb)

SpecIntake == Init /\ [][NextIntake]_vars

(***************************************************************************)
(* AudioEngine.initialize(): its awaits, with calls that overlap, succeed  *)
(* or fail, and the calls of start and of the triggers around them.        *)
(***************************************************************************)
\* Calls of initialize() in one behaviour.
MaxInitCalls == 2
\* The sub-engines; hist.graphs counts how often each one's initialize() has
\* built its audio graph.
SubEngines == {"drone", "tx", "bowl"}

\* A sub-engine's initialize() builds its graph; nothing keeps it from
\* building it again.
build(w, engines) ==
  [w EXCEPT
     !.hist.graphs = [g \in SubEngines |-> IF g \in engines THEN @[g] + 1 ELSE @[g]],
     !.tse = IF "tx" \in engines THEN initialize(@) ELSE @]

\* initialize() up to its first await: it returns when _isInitialized is set,
\* and awaits Tone.start() otherwise.
beginInitialize(a) ==
  IF a.isInitialized THEN a
  ELSE [a EXCEPT !.initializing = @ (+) SetToBag({"Tone.start"})]

\* A step of the engine at time t that leaves the world w.
InitStep(w, t) ==
  /\ Idle
  /\ CanReach(t)
  /\ tse' = w.tse
  /\ ae' = w.ae
  /\ hist' = w.hist
  /\ now' = t
  /\ call' = NoCall
  /\ UNCHANGED <<batch, msgs, app, net, visualVars>>

\* initialize() is called.
InitCall ==
  /\ hist.clicks < MaxInitCalls
  /\ InitStep([World EXCEPT !.ae = beginInitialize(@),
                            !.hist.clicks = @ + 1], now)

\* Tone.start() resolves for one call: the three sub-engines' initialize()
\* are called.
ToneStarts ==
  /\ BagIn("Tone.start", ae.initializing)
  /\ InitStep([World EXCEPT !.ae.initializing =
                 (@ (-) SetToBag({"Tone.start"})) (+) SetToBag({"Promise.all"})],
              now)

\* The three sub-engines of one call have built their graphs: Promise.all
\* resolves and _isInitialized is set.
Initialized ==
  /\ BagIn("Promise.all", ae.initializing)
  /\ InitStep([build(World, SubEngines) EXCEPT
                 !.ae.initializing = @ (-) SetToBag({"Promise.all"}),
                 !.ae.isInitialized = TRUE], now)

\* Tone.start() rejects, or a sub-engine's initialize() does after the
\* sub-engines in built have built their graphs: initialize() throws.
InitFails(phase, built) ==
  /\ BagIn(phase, ae.initializing)
  /\ phase = "Tone.start" => built = {}
  /\ built # SubEngines
  /\ InitStep([build(World, built) EXCEPT
                 !.ae.initializing = @ (-) SetToBag({phase})], now)

\* start() is called.
StartCall == InitStep([World EXCEPT !.ae = start(@)], now)

\* triggerTransactionSound(txid, value) is called, gap ms after the last
\* event.
TriggerTransactionSound(gap, value, rnd, jit) ==
  /\ Idle
  /\ msgs < MaxMsgs
  /\ CanReach(now + gap)
  /\ IF ~ae.isInitialized \/ ~ae.transactionSoundsEnabled
       THEN call' = CallRecord(tse, now + gap, value, FALSE) /\ tse' = tse
     ELSE LET r == triggerSound(tse, now + gap, value, rnd, jit)
          IN  tse' = r.eng /\ call' = r.call
  /\ now' = now + gap
  /\ msgs' = msgs + 1
  /\ UNCHANGED <<batch, ae, app, hist, net, visualVars>>

\* triggerBlockEvent() is called, gap ms after the last event.
TriggerBlockEvent(gap) ==
  /\ hist.blocks < MaxBlocks
  /\ InitStep([triggerBlockEvent(World, now + gap) EXCEPT !.hist.blocks = @ + 1],
              now + gap)

NextInit ==
  \/ InitCall
  \/ ToneStarts
  \/ Initialized
  \/ \E phase \in {"Tone.start", "Promise.all"}, built \in SUBSET SubEngines :
       InitFails(phase, built)
  \/ StartCall
  \/ \E gap \in SessionGaps, value \in SessionValues, rnd \in BOOLEAN,
        jit \in SessionJitters : TriggerTransactionSound(gap, value, rnd, jit)
  \/ \E gap \in SessionGaps : TriggerBlockEvent(gap)
  \/ \E d \in BagToSet(tse.soundTimers) : SoundEnds(d)
  \/ \E d \in BagToSet(tse.echoTimers) : EchoFires(d)
  \/ \E d \in BagToSet(tse.suppressTimers) : SuppressEnds(d)

SpecInit == Init /\ [][NextInit]_vars

(***************************************************************************)
(* The animation loop of the visualizer: the frames it has requested.      *)
(***************************************************************************)
\* The browser's list of animation-frame callbacks is kept in viz.pending: a
\* callback is the handle requestAnimationFrame returned for it and the
\* stressLevel its animate closure was created with; viz.requested counts the
\* handles handed out, viz.loops the runs of the animation effect since the
\* visualizer mounted.
MaxFrames == 12
MaxLoopParticles == 1
StressProps == {0, StressOne \div 2, StressOne}

\* requestAnimationFrame(animate) by the closure made for the level stress,
\* and the assignment of its handle to animationRef.current.
requestAnimationFrame(v, stress) ==
  [v EXCEPT !.requested = @ + 1,
            !.animationRef = v.requested + 1,
            !.pending = @ \cup {[handle |-> v.requested + 1,
                                 stressLevel |-> stress]}]

\* cancelAnimationFrame(handle): a handle that is not pending is ignored.
cancelAnimationFrame(v, handle) ==
  [v EXCEPT !.pending = {f \in @ : f.handle # handle}]

\* A variant of the effect's cleanup that leaves the frame requested.
cleanupKeepsFrame(v) == v

\* The cleanup of the animation effect.
cleanupLoop(v) == cancelAnimationFrame(v, v.animationRef)

\* One call of animate by the closure made for stress: the tick, then the
\* request of the next frame.
animateLoop(v, ps, stress) ==
  LET r == animate(v, ps)
  IN  [viz |-> requestAnimationFrame(r.viz, stress), particles |-> r.particles]

\* The animation effect runs for the level stress: the canvas is sized and
\* animate() is called.
loopEffect(v, ps, stress) ==
  animateLoop([v EXCEPT !.container = resize, !.stressLevel = stress,
                        !.loops = @ + 1], ps, stress)

LoopStep(r) ==
  /\ viz' = r.viz
  /\ particles' = r.particles
  /\ call' = NoCall
  /\ UNCHANGED <<now, tse, batch, msgs, audioVars, loop>>

\* The visualizer mounts with the level stress: its refs are new, the
\* effect on isBlockEvent runs, then the animation effect.
VisualizerMounts(stress, block) ==
  /\ ~viz.mounted
  /\ viz.requested < MaxFrames
  /\ LoopStep(loopEffect(blockEventEffect(
       [NewVisualizer EXCEPT !.mounted = TRUE, !.isBlockEvent = block,
                             !.pending = viz.pending,
                             !.requested = viz.requested]), <<>>, stress))
  /\ UNCHANGED sched

\* The browser runs a pending callback: the tab is in the foreground.
FrameCallback(f) ==
  /\ f \in viz.pending
  /\ sched.visible
  /\ viz.requested < MaxFrames
  /\ LoopStep(animateLoop([viz EXCEPT !.pending = @ \ {f}], particles,
                          f.stressLevel))
  /\ UNCHANGED sched

\* The visualizer is rendered with another stressLevel: the cleanup of the
\* animation effect, then the effect.
StressLevelChanges(stress) ==
  /\ viz.mounted
  /\ stress # viz.stressLevel
  /\ viz.requested < MaxFrames
  /\ LoopStep(loopEffect(cleanupLoop(viz), particles, stress))
  /\ UNCHANGED sched

\* The visualizer is rendered with another isBlockEvent.
IsBlockEventChanges ==
  /\ viz.mounted
  /\ LoopStep([viz |-> blockEventEffect([viz EXCEPT !.isBlockEvent = ~@]),
               particles |-> particles])
  /\ UNCHANGED sched

\* The transactions prop brings a new transaction, numbered n.
LoopSpawn(n) ==
  /\ viz.mounted
  /\ Len(particles) < MaxLoopParticles
  /\ n = Len(particles)
  /\ LoopStep([viz |-> viz,
               particles |-> spawnParticle(particles, viz.container, n)])
  /\ UNCHANGED sched

\* The visualizer unmounts: the cleanup of the animation effect.
VisualizerUnmounts ==
  /\ viz.mounted
  /\ LoopStep([viz |-> [cleanupLoop(viz) EXCEPT !.mounted = FALSE],
               particles |-> <<>>])
  /\ UNCHANGED sched

\* The tab goes to the background, and comes back.
TabSwitches ==
  /\ sched' = [sched EXCEPT !.visible = ~@]
  /\ call' = NoCall
  /\ UNCHANGED <<now, tse, batch, msgs, audioVars, viz, particles, loop>>

NextLoop ==
  \/ \E stress \in StressProps, block \in BOOLEAN :
       VisualizerMounts(stress, block)
  \/ \E f \in viz.pending : FrameCallback(f)
  \/ \E stress \in StressProps : StressLevelChanges(stress)
  \/ IsBlockEventChanges
  \/ \E n \in 0..MaxLoopParticles : LoopSpawn(n)
  \/ VisualizerUnmounts
  \/ TabSwitches

SpecLoop == Init /\ [][NextLoop]_vars

(***************************************************************************)
(* The rate limiter: properties of SpecEngine.                             *)
(***************************************************************************)
\* The handler that ran last called triggerSound.
Called == call.value >= 0
\* ... on an engine that was initialised and enabled.
CalledLive == Called /\ call.pre.synth /\ call.pre.isEnabled
\* ... less than minCooldown after the last admitted sound.
CalledInCooldown == call.at - call.pre.lastSoundTime < minCooldown
\* ... with maxPolyphony sounds or more still playing.
CalledAtPolyphony == call.pre.activeSounds >= maxPolyphony
\* ... with more than maxSoundsPerSecond admitted per second over the trailing
\* window (stamps per window against the rate, cross-multiplied).
CalledBusy ==
  LET stamps == call.pre.soundTimestamps
      recent == {i \in 1..Len(stamps) : stamps[i] >= call.at - activityWindow}
  IN  Cardinality(recent) * 1000 > maxSoundsPerSecond * activityWindow

\* C1: a call of triggerSound with a value below DUST returns null and plays
\* nothing - no sound is started, no timer set, no field of the engine
\* written - whatever the engine's state and the stress level set before.
C1_DustNeverAdmitted ==
  (Called /\ call.value < DUST) => (~call.admitted /\ tse = call.pre)

\* C1 witness: dust offered to a live engine with sounds playing, out of the
\* cooldown, after a stress level was set.
C1_Witness ==
  /\ CalledLive /\ call.value < DUST
  /\ ~CalledInCooldown
  /\ call.pre.activeSounds > 0
  /\ call.pre.filterFreq # filterInitial

\* C2: a call with a value of WHALE or more on a live engine is admitted,
\* inside the cooldown or not, whatever the number of sounds playing and the
\* trailing rate.
C2_WhaleBypass ==
  (CalledLive /\ call.value >= WHALE) => call.admitted

\* C2 witness: a whale admitted inside the cooldown, at the polyphony limit
\* and above the rate limit.
C2_Witness ==
  /\ CalledLive /\ call.value >= WHALE
  /\ CalledInCooldown /\ call.pre.lastSoundTime > 0
  /\ CalledAtPolyphony
  /\ CalledBusy
  /\ call.admitted

\* C3: a call below WHALE inside the cooldown is rejected; lastSoundTime,
\* from which the cooldown is measured, is the time of the call when the call
\* is admitted and is left alone when it is rejected.
C3_Cooldown ==
  /\ (Called /\ call.value < WHALE /\ CalledInCooldown) => ~call.admitted
  /\ Called => tse.lastSoundTime =
                 IF call.admitted THEN call.at ELSE call.pre.lastSoundTime

\* C3 witness: a transaction that passes every other test, rejected inside the
\* cooldown of an admitted sound, the cooldown still running from that sound.
C3_Witness ==
  /\ CalledLive /\ call.value >= DUST /\ call.value < WHALE
  /\ ~CalledAtPolyphony
  /\ call.pre.lastSoundTime > T0
  /\ CalledInCooldown
  /\ ~call.admitted
  /\ tse.lastSoundTime = call.pre.lastSoundTime

\* C4: at the polyphony limit a call on a live engine is admitted if and only
\* if its value is LARGE or more and it passes the dust test and the cooldown
\* test (which whales bypass).
C4_PolyphonyCeiling ==
  (CalledLive /\ CalledAtPolyphony) =>
    (call.admitted <=>
       /\ call.value >= LARGE
       /\ call.value >= DUST
       /\ (~CalledInCooldown \/ call.value >= WHALE))

\* C4 witness: at the limit and out of the cooldown, a transaction of exactly
\* LARGE (no whale) is admitted.
C4_Witness ==
  /\ CalledLive /\ CalledAtPolyphony /\ ~CalledInCooldown
  /\ call.value = LARGE
  /\ call.admitted

\* C5: above the rate limit, a call on a live engine that passes the dust,
\* cooldown and polyphony tests is admitted when its value is SMALL or more;
\* a call that passes those three tests is rejected only when its value is
\* below SMALL and the rate is above the limit.
C5_LoadShedding ==
  (/\ CalledLive
   /\ call.value >= DUST
   /\ (~CalledInCooldown \/ call.value >= WHALE)
   /\ ~CalledAtPolyphony)
  => /\ (CalledBusy /\ call.value >= SMALL) => call.admitted
     /\ ~call.admitted => (CalledBusy /\ call.value < SMALL)

\* C5 witness: above the rate limit, a transaction of exactly SMALL that
\* passes the three tests is admitted.
C5_Witness ==
  /\ CalledLive /\ ~CalledInCooldown /\ ~CalledAtPolyphony
  /\ CalledBusy
  /\ call.value = SMALL
  /\ call.admitted

\* The load rule tosses a coin: below SMALL and above the rate limit both
\* outcomes occur.
ShedRejected ==
  /\ CalledLive /\ ~CalledInCooldown /\ ~CalledAtPolyphony /\ CalledBusy
  /\ call.value >= DUST /\ call.value < SMALL /\ ~call.admitted
ShedAdmitted ==
  /\ CalledLive /\ ~CalledInCooldown /\ ~CalledAtPolyphony /\ CalledBusy
  /\ call.value >= DUST /\ call.value < SMALL /\ call.admitted

(***************************************************************************)
(* The block session: properties of SpecSession and SpecSessionFair.       *)
(***************************************************************************)
\* C6: a call of triggerSound is admitted only when the quiet window of
\* every block event triggered so far is over: no transaction sound is
\* admitted in the 4000 ms after triggerBlockEvent, whatever toggles, timers
\* and further block events fall in that window.
C6_QuietWindow == call.admitted => call.at >= hist.quietUntil

\* C7: while isBlockEvent stays raised the bowl is struck at most once,
\* whatever re-runs App's block effect in the meantime.  (That the animation
\* progress is not reset needs no check to fail this.)
C7_OneStrikePerSession == hist.strikes <= 1

\* The session is idle: the flag is cleared, no suppression is pending and
\* the block animation is over.
SessionIdle ==
  /\ ~app.isBlockEvent
  /\ tse.suppressTimers = EmptyBag
  /\ ~viz.blockEventRef

\* C8: after every block notification the session eventually is idle again.
C8_ReturnToIdle == app.isBlockEvent ~> SessionIdle

(***************************************************************************)
(* The particle cap: properties of SpecParticles.                          *)
(***************************************************************************)
\* The step that ran last was a spawnParticle call; it found the list full.
JustSpawned == loop.last >= 0
SpawnedAtCap == JustSpawned /\ Len(loop.pre) = MAX_PARTICLES

Ids(ps) == IF ps = <<>> THEN <<>> ELSE [i \in 1..Len(ps) |-> ps[i].id]
SettledIn(ms) == SelectSeq(ms, LAMBDA q : q.settled)

\* C9: the particle list never holds more than MAX_PARTICLES particles once
\* a spawnParticle call has returned, whatever ticks, background time or
\* block session fall between the spawns.
C9_ParticleBound == Len(particles) <= MAX_PARTICLES

\* A spawn found the list full and left it full.
C9_Witness == SpawnedAtCap /\ Len(particles) = MAX_PARTICLES

\* C10: a spawn that finds the list full removes exactly one particle - the
\* first settled one in spawn order if any is settled, else the first one -
\* and keeps the others, in order, with the new particle last.
C10_CapEviction ==
  SpawnedAtCap =>
    LET victim == IF SettledIn(loop.pre) # <<>>
                    THEN SettledIn(loop.pre)[1].id
                    ELSE loop.pre[1].id
    IN  Ids(particles) =
          Append(SelectSeq(Ids(loop.pre), LAMBDA id : id # victim), loop.last)

\* A spawn found the list full, its first particle still falling and a later
\* one settled.
C10_Witness ==
  /\ SpawnedAtCap
  /\ ~loop.pre[1].settled
  /\ SettledIn(loop.pre) # <<>>

\* A spawn found the list full with nothing settled.
SpawnedAtCapUnsettled == SpawnedAtCap /\ SettledIn(loop.pre) = <<>>

(***************************************************************************)
(* The pile: properties of SpecParticles.                                  *)
(***************************************************************************)
\* Where the settled particles of ps lie, and the ids in ps.
SettledMarks(ps) ==
  {[id |-> ps[i].id, x |-> ps[i].x, y |-> ps[i].y] :
     i \in {k \in 1..Len(ps) : ps[k].settled}}
IdSet(ps) == {ps[i].id : i \in 1..Len(ps)}

\* No block session is running and p, settled before the step, is still in
\* the list after it: then it is settled and lies where it lay.
StaysPut ==
  ~viz.blockEventRef =>
    \A ids \in {IdSet(particles')} : \A marks \in {SettledMarks(particles')} :
      \A m \in SettledMarks(particles) : m.id \in ids => m \in marks

\* C11: outside a block session no step - a tick least of all - moves a
\* settled particle or unsettles it; it lies where it settled until it is
\* removed or a block session starts.
C11_SettledStaysPut == [][StaysPut]_vars

\* Ticks have passed over settled particles while others were still falling.
C11_Witness ==
  /\ sched.visible /\ sched.frames = FramesPerRun
  /\ ~viz.blockEventRef
  /\ sched.runs >= 5
  /\ \E i \in 1..Len(particles) : particles[i].settled /\ particles[i].vx # 0
  /\ \E i \in 1..Len(particles) : ~particles[i].settled

\* The settled pile of ps stands higher than MAX_FILL_RATIO of the container.
pileOverflows(ps, container) ==
  LET settledAt == {i \in 1..Len(ps) : ps[i].settled}
      highestY == MinOf({container.bottom} \cup
                        {ps[i].y - ps[i].size : i \in settledAt})
  IN  (container.bottom - highestY) * 100 > container.height * MAX_FILL_RATIO

\* The ids of the oldest 15 percent, rounded up, of the settled particles.
OldestSettled(ps) ==
  LET settled == SelectSeq(ps, LAMBDA q : q.settled)
      toRemove == (Len(settled) * 15 + 99) \div 100
  IN  {settled[i].id : i \in 1..toRemove}

\* The ids of the particles of ps that are fainter in after, or not in it.
AlphaMarks(ps) ==
  {[id |-> ps[i].id, alpha |-> ps[i].alpha, hair |-> ps[i].hair] :
     i \in 1..Len(ps)}
Touched(ps, after) == {m.id : m \in AlphaMarks(ps) \ AlphaMarks(after)}

\* A tick of the normal physics over a list that is not empty.
NormalTick ==
  /\ sched.visible /\ sched'.frames = sched.frames + 1
  /\ ~viz.blockEventRef
  /\ particles # <<>>

\* On a normal tick, after the physics: over 85 percent the oldest settled
\* particles are the ones faded or removed, else none is.
PrunesOldest ==
  NormalTick =>
    \A moved \in {physics(particles, viz.container)} :
      Touched(moved, particles') =
        IF pileOverflows(moved, viz.container) THEN OldestSettled(moved) ELSE {}

\* C12: on a tick where the settled pile exceeds 85 percent of the container
\* height the particles faded (by 0.1, and removed at 0) are the oldest 15
\* percent, rounded up, of the settled ones; on other ticks none is faded or
\* removed.
C12_OverflowEviction == [][PrunesOldest]_vars

(***************************************************************************)
(* The block animation: properties of SpecParticles.                       *)
(***************************************************************************)
\* The step is an animation tick.
Tick == sched.visible /\ sched'.frames = sched.frames + 1

\* A tick of a block session advances progress by ProgressStep and keeps
\* every particle in the list, until progress reaches DissolveEnd: that tick
\* empties the list, resets the flag and sets progress to 0.  A tick outside
\* a session leaves progress at 0 and an empty list empty.
SessionTick ==
  Tick =>
    IF viz.blockEventRef
      THEN IF viz.blockAnimationProgress + ProgressStep < DissolveEnd
             THEN /\ viz'.blockEventRef
                  /\ viz'.blockAnimationProgress =
                       viz.blockAnimationProgress + ProgressStep
                  /\ Len(particles') = Len(particles)
             ELSE /\ ~viz'.blockEventRef
                  /\ viz'.blockAnimationProgress = 0
                  /\ particles' = <<>>
      ELSE /\ viz' = viz
           /\ particles = <<>> => particles' = <<>>

\* C13: a block session advances by 0.02 a tick; the tick on which progress
\* reaches 2.0 clears the whole list, particles spawned during the session
\* included, resets the flag and the progress, and the ticks after it run the
\* normal physics on an empty container.
C13_SessionCompletes == [][SessionTick]_vars

\* A session has run to its end with particles spawned during it, and ticks
\* have passed over the empty list since.
C13_Witness ==
  /\ hist.blocks = 1
  /\ viz.mounted /\ ~viz.blockEventRef /\ viz.blockAnimationProgress = 0
  /\ particles = <<>>
  /\ loop.spawned > (MinOf(BlockAt) + 1) * SpawnBatch
  /\ sched.frames > (DissolveEnd \div ProgressStep) % FramesPerRun

\* C14: no transaction tone is played while the transaction-sounds flag is
\* off: neither the main tone of a transaction nor the echo of a whale that
\* was admitted before the flag was turned off.
C14_FlagHonoured ==
  (call.admitted \/ call.echo) => ae.transactionSoundsEnabled

\* C15: once setVolume(v) has been called, the level of each engine is its
\* base level plus the offset -60 * (1 - v / 100) dB of the master volume, and
\* stress updates, transaction sounds and block events leave it there.
C15_MasterGain ==
  hist.volumeSet =>
    /\ ae.droneDb = DroneBase + dbOffset(ae.volume)
    /\ ae.txDb = TxBase + dbOffset(ae.volume)
    /\ ae.bowlDb = BowlBase + dbOffset(ae.volume)

\* C16: the stress level is in [0, 1], whatever the throughput and whichever
\* handler wrote it.
C16_Clamping == net.stressLevel >= 0 /\ net.stressLevel <= StressOne

\* A run of calculateFlowRate has found 100 times MAX_FLOW in the window.
C16_Witness ==
  /\ net.ticks > 0
  /\ net.flowRate = VBytes(net.buffer)
  /\ net.flowRate >= PerSecond * 100 * MAX_FLOW
  /\ net.stressLevel = StressOne

\* A step is a run of calculateFlowRate.
TickStep == net'.ticks = net.ticks + 1

\* The recorded transactions the window covers at time t.
Covered(t) ==
  SelectSeq(net.recorded, LAMBDA run : t - run.timestamp <= BUFFER_WINDOW)

TickPost ==
  TickStep =>
    /\ net'.buffer = Covered(now')
    /\ net'.flowRate = VBytes(Covered(now'))
    /\ Covered(now') = <<>> => net'.flowRate = 0 /\ net'.stressLevel = 0

\* C17: a run of calculateFlowRate leaves in the buffer exactly the recorded
\* transactions of the last 5000 ms and publishes the sum of their vsize over
\* 5 seconds; an empty window gives rate 0 and stress 0.
C17_TickPostcondition == [][TickPost]_vars

\* Window totals (vBytes in BUFFER_WINDOW ms) to compare with.
Throughputs ==
  {0, PerSecond * MIN_FLOW - 1, PerSecond * MIN_FLOW, PerSecond * MIN_FLOW + 1,
   12500, 12501, PerSecond * MAX_FLOW - 1, PerSecond * MAX_FLOW,
   PerSecond * MAX_FLOW + 1, PerSecond * 100 * MAX_FLOW}

\* C18: of two windows the one with the smaller total throughput has the
\* smaller or the same stress level: the window published and any other.
C18_Monotone ==
  \A a \in Throughputs :
    /\ a < net.flowRate => normalizeFlowRate(a) <= net.stressLevel
    /\ net.flowRate < a => net.stressLevel <= normalizeFlowRate(a)

\* A run of calculateFlowRate has published a stress level strictly between
\* 0 and 1.
C18_Witness ==
  /\ net.ticks > 0
  /\ net.flowRate = VBytes(net.buffer)
  /\ net.stressLevel > 0 /\ net.stressLevel < StressOne

Written ==
  net'.flowRate # net.flowRate \/ net'.stressLevel # net.stressLevel

\* C19: flowRate and stressLevel are written by calculateFlowRate only.
C19_SingleWriter == [][Written => TickStep]_vars
\* C20: two tones for the same value and for txids with the same last four
\* hex digits are given the same note of the scale, whatever the state of
\* the engine at the two calls.
C20_SameNote ==
  \A a, b \in hist.tones :
    (a.value = b.value /\ lastFourHex(a.txid) = lastFourHex(b.txid))
      => a.index = b.index

\* Two tones were played for one value and for two txids that differ before
\* their last four digits only, with different numbers of sounds active.
C20_Witness ==
  \E a, b \in hist.tones :
    /\ a.value = b.value
    /\ a.txid # b.txid
    /\ lastFourHex(a.txid) = lastFourHex(b.txid)
    /\ a.active # b.active
\* C21: for every value from DUST on and every txid the offset the txid
\* gives is one of -2 .. 2, and the note chosen is one of the 20 of the scale
\* and at most 2 steps from the note of the value.
C21_BoundedPerturbation ==
  \A a \in hist.tones :
    LET offset == indexOffset(lastFourHex(a.txid))
        base == baseIndex(normalizeValue(a.value))
    IN  /\ offset \in -2 .. 2
        /\ a.index \in 0 .. ScaleLength - 1
        /\ Abs(a.index - base) <= 2

\* A note was chosen at the edge of the scale: the offset would have left it.
C21_Witness ==
  \E a \in hist.tones :
    /\ a.value = MEGA
    /\ indexOffset(lastFourHex(a.txid)) = -2
    /\ a.index = 0
\* C22: the note of the value (before the txid moves it) never rises as the
\* value grows; from MEGA on the normalized value is 1 and the note is the
\* lowest, and at DUST the normalized value is 0 and the note is the highest.
C22_LargerIsLower ==
  \A a \in hist.tones :
    LET nv == normalizeValue(a.value)
    IN  /\ \A v \in MapValues :
             v >= a.value => baseIndex(normalizeValue(v)) <= baseIndex(nv)
        /\ a.value >= MEGA => nv[1] = nv[2] /\ baseIndex(nv) = 0
        /\ a.value = DUST => nv[1] = 0 /\ baseIndex(nv) = ScaleLength - 1

\* A value above MEGA was mapped, and its note is lower than a whale's.
C22_Witness ==
  \E a \in hist.tones :
    /\ a.value > MEGA
    /\ baseIndex(normalizeValue(a.value)) = 0
    /\ baseIndex(normalizeValue(WHALE)) > 0
EchoScheduled ==
  tse'.echoTimers =
    IF call'.value >= WHALE
      THEN tse.echoTimers (+) SetToBag({call'.at + EchoDelay})
      ELSE tse.echoTimers

EchoHeard == \E d \in BagToSet(tse.echoTimers) : EchoFires(d) /\ call'.echo

C24_AuxiliaryLayers ==
  [][/\ call'.admitted =>
          /\ call'.bell <=> call'.value >= MEDIUM
          /\ EchoScheduled
          /\ call'.at = now'
     /\ EchoHeard => tse.synth /\ tse.isEnabled]_vars

\* The echo of a whale that was played with its bell came due after the
\* engine was disposed, and stayed silent.
C24_Witness ==
  /\ call.value < 0
  /\ call.at = now
  /\ call.at = tse.lastSoundTime + EchoDelay
  /\ ~call.echo
  /\ ~tse.synth
  /\ tse.isEnabled

\* C25: a transaction that comes without a numeric vsize is not appended to
\* the buffer, and the flow rate and the stress level stay numbers.
C25_MalformedDropped ==
  /\ \A i \in DOMAIN net.buffer : net.buffer[i].vsize # NaN
  /\ net.flowRate # NaN
  /\ net.stressLevel # NaN

\* C26: a transaction of vsize 0 is given the colour of the lowest band of
\* fee rates.
C26_ZeroVsizeIsCold == \A f \in hist.fees : f.vsize = 0 => f.color = "#3B82F6"

\* C27: once calculateFlowRate has run, the transactions that have a particle
\* are the transactions whose sound was admitted by the rate limiter.
C27_ParticlesFollowAdmission ==
  [][TickStep =>
       {particles'[i].id : i \in DOMAIN particles'}
         = {t.txid : t \in hist'.tones}]_vars

\* C28: once the cleanup of the hook has run, no reconnect timer is pending,
\* neither interval fires again and no WebSocket is made.
C28_TeardownIsFinal ==
  [][~net'.live =>
       /\ net'.reconnectTimers = {}
       /\ ~net.live =>
            /\ net'.ticks = net.ticks
            /\ net'.polls = net.polls
            /\ net'.sockets = net.sockets]_vars

\* C29: recentSounds never holds more than 30 events, and they are the last
\* events triggerSound has returned, in the order it returned them.
C29_RecentSounds ==
  /\ Len(hist.recentSounds) <= RecentLimit
  /\ Len(hist.recentSounds) = Min(RecentLimit, Len(hist.played))
  /\ \A i \in DOMAIN hist.recentSounds :
       hist.recentSounds[i] =
         hist.played[Len(hist.played) - Len(hist.recentSounds) + i]

\* More than 30 sounds were played, with calls rejected between them, and
\* the list has dropped the oldest.
C29_Witness ==
  /\ Len(hist.played) > RecentLimit
  /\ Len(hist.played) < msgs
  /\ Len(hist.recentSounds) = RecentLimit
  /\ hist.recentSounds[1] # hist.played[1]

\* C30: triggerMelody returns a melody only for a value above 0.01 BTC and
\* only MELODY_COOLDOWN or more after the last melody; a melody has 4 notes,
\* and two melodies for txids with the same last 8 hex characters and for
\* values of the same octave shift have the same notes.
C30_WhaleMelodies ==
  /\ hist.melody.event.produced =>
       /\ hist.melody.event.value > SMALL_WHALE
       /\ hist.melody.event.timestamp - hist.melody.event.previous
            >= MELODY_COOLDOWN
       /\ Len(hist.melody.event.notes) = 4
  /\ \A a, b \in hist.melody.melodies :
       /\ lastEightHex(a.txid) = lastEightHex(b.txid)
       /\ getOctaveShift(a.value) = getOctaveShift(b.value)
       => a.notes = b.notes

\* C31: on a tick of a block session, converging or dissolving, no particle's
\* alpha rises, and it stays between 0 and 1.
AlphaDecays ==
  (Tick /\ viz.blockEventRef /\ viz'.blockEventRef) =>
    \A i \in DOMAIN particles' :
      /\ particles'[i].alpha <= particles[i].alpha
      /\ particles'[i].alpha >= 0
      /\ particles'[i].alpha <= 100

C31_AlphaOnlyDecays == [][AlphaDecays]_vars

\* C32: the progress of the block animation is at least 0 and below 2 after
\* every tick and 0 when no session is running; in a session it never falls,
\* and a tick of a session moves no particle by gravity, settles none and
\* removes none but all at its end.
ProgressInRange ==
  /\ viz.blockAnimationProgress >= 0
  /\ viz.blockAnimationProgress < DissolveEnd
  /\ ~viz.blockEventRef => viz.blockAnimationProgress = 0

SessionStep ==
  /\ (viz.blockEventRef /\ viz'.blockEventRef) =>
       viz'.blockAnimationProgress >= viz.blockAnimationProgress
  /\ (Tick /\ viz.blockEventRef) =>
       /\ Len(particles') = Len(particles) \/ particles' = <<>>
       /\ \A i \in DOMAIN particles' :
            /\ particles'[i].id = particles[i].id
            /\ particles'[i].settled = particles[i].settled
            /\ particles'[i].vx = particles[i].vx
            /\ particles'[i].vy = particles[i].vy

C32_SessionInvariant == []ProgressInRange /\ [][SessionStep]_vars

\* A session is dissolving particles that had not settled and were falling.
C32_Witness ==
  /\ viz.blockEventRef
  /\ viz.blockAnimationProgress > ConvergeEnd
  /\ \E i \in DOMAIN particles :
       ~particles[i].settled /\ particles[i].vy > 0

\* C33 as stated: in every reachable state activeSounds is at most
\* maxPolyphony.
C33_HardCeiling == tse.activeSounds <= maxPolyphony

\* A step that takes activeSounds above maxPolyphony is one admitted
\* triggerSound call of a value of LARGE or more, and it adds one sound.
OverCeilingStep ==
  (tse'.activeSounds > maxPolyphony /\ tse'.activeSounds > tse.activeSounds) =>
    /\ call'.admitted
    /\ call'.value >= LARGE
    /\ call'.pre.activeSounds = tse.activeSounds
    /\ tse'.activeSounds = tse.activeSounds + 1

\* C33, amended: activeSounds is never negative, and it goes above
\* maxPolyphony only by admitted calls of values of LARGE or more, one sound a
\* call: sounds of smaller values never take the count past the ceiling.
C33_CeilingButLarge == [](tse.activeSounds >= 0) /\ [][OverCeilingStep]_vars

\* C33 witness: a call of LARGE or more was admitted at the limit, and more
\* than maxPolyphony sounds are playing.
C33_Witness ==
  /\ call.admitted
  /\ call.value >= LARGE
  /\ call.pre.activeSounds >= maxPolyphony
  /\ tse.activeSounds > maxPolyphony

\* C34: each distinct txid is appended to the buffer at most once, and a
\* handler calls a callback with a txid only when it appends that txid: the
\* txids appended so far are all distinct, and no callback is called twice
\* with one txid by one handler.
RunsDistinct(rs) ==
  \A i, j \in DOMAIN rs : i < j => (rs[i].to < rs[j].from \/ rs[j].to < rs[i].from)
C34_Deduplicated ==
  /\ RunsDistinct(hist.appended)
  /\ \A i, j \in DOMAIN hist.handled.delivered :
       i < j => hist.handled.delivered[i] # hist.handled.delivered[j]

\* The handler that ran last handed transactions to processTransaction.
Handled == hist.handled.answer # <<>>
\* Where x comes first in a list.
FirstAt(list, x) ==
  CHOOSE i \in DOMAIN list : list[i] = x /\ \A j \in 1 .. i - 1 : list[j] # x
\* Where cb stands among the registered callbacks.
Registered(cb) == CHOOSE i \in DOMAIN net.callbacks : net.callbacks[i] = cb

\* A handler step with a list of transactions: every transaction of the list
\* that was not in the set of seen txids is in the buffer afterwards and every
\* registered callback, those after one that throws too, has been called
\* with it; the calls are made in the order of the list, transaction by
\* transaction, and for one transaction in the order of registration.
IsolationStep ==
  Handled' =>
    LET answer == hist'.handled.answer
        d == hist'.handled.delivered
        news == {answer[i] : i \in {j \in DOMAIN answer :
                                      ~runsHas(net.seenTxids, answer[j])}}
    IN  /\ net'.callbacks = net.callbacks
        /\ \A x \in news :
             /\ buffered(net'.buffer, x)
             /\ \A i \in DOMAIN net.callbacks :
                  \E k \in DOMAIN d : d[k] = <<net.callbacks[i], x>>
        /\ \A k \in DOMAIN d : d[k][2] \in news
        /\ \A k, l \in DOMAIN d :
             k < l =>
               \/ FirstAt(answer, d[k][2]) < FirstAt(answer, d[l][2])
               \/ /\ d[k][2] = d[l][2]
                  /\ Registered(d[k][1]) < Registered(d[l][1])

\* C35: a callback that throws keeps no other callback from receiving the
\* transaction, takes no transaction out of the buffer and does not stop the
\* later transactions of the same list from being processed in their order.
C35_SubscriberIsolation == [][IsolationStep]_vars

\* C35 witness: a callback that throws is registered before App's; the
\* handler that ran last handed the first transaction of its list to both,
\* then the last of its list to both, and both transactions are in the
\* buffer.
C35_Witness ==
  /\ Handled
  /\ net.callbacks = <<"faulty", "app">>
  /\ LET answer == hist.handled.answer
         d == hist.handled.delivered
     IN  /\ Len(answer) = PollSize
         /\ Len(d) = 2 * PollSize
         /\ d[1] = <<"faulty", answer[1]>>
         /\ d[2] = <<"app", answer[1]>>
         /\ d[Len(d)] = <<"app", answer[PollSize]>>
         /\ buffered(net.buffer, answer[1])
         /\ buffered(net.buffer, answer[PollSize])

\* activeSounds is the number of admitted sounds whose timer is pending.
SoundsAccounted ==
  /\ tse.activeSounds >= 0
  /\ tse.activeSounds = BagCardinality(tse.soundTimers)
\* The feed has delivered its last message and its forEach has ended.
AdmissionsOver == msgs = MaxMsgs /\ batch.left = 0

\* C36: activeSounds is never negative and equals the number of admitted
\* sounds whose duration timer has not fired; once the admissions are over it
\* returns to 0, and a polyphony gate that is closed opens again.
C36_ActiveSoundAccounting ==
  /\ []SoundsAccounted
  /\ AdmissionsOver ~> (tse.activeSounds = 0)
  /\ (AdmissionsOver /\ tse.activeSounds >= maxPolyphony)
       ~> (tse.activeSounds < maxPolyphony)

\* C36 witness: maxPolyphony sounds or more were admitted, the admissions are
\* over and every timer has fired: no sound is active.
C36_Witness ==
  /\ AdmissionsOver
  /\ Len(tse.soundTimestamps) >= maxPolyphony
  /\ tse.soundTimers = EmptyBag
  /\ tse.activeSounds = 0

\* The user has entered and the drone is switched off; transaction sounds and
\* the bowl are switched on.
DroneOff ==
  /\ app.hasEntered
  /\ ae.isInitialized
  /\ ~ae.droneEnabled
  /\ ae.transactionSoundsEnabled
  /\ ae.bowlEnabled

\* With the drone off, a transaction of the feed is handed to triggerSound,
\* and a block notification that raises isBlockEvent strikes the bowl, starts
\* the quiet window and sets the timer that clears isBlockEvent.
DroneOffStep ==
  /\ (DroneOff /\ msgs' = msgs + 1) => Called'
  /\ (DroneOff /\ hist'.blocks = hist.blocks + 1 /\ ~app.isBlockEvent) =>
       /\ hist'.strikes = 1
       /\ hist'.quietUntil = now' + SuppressMs
       /\ app'.clearTimers = {now' + ClearBlockMs}

\* C37: switching the drone off stops no other output: transactions still
\* get their sounds, a block still strikes the bowl and suppresses the
\* transaction sounds, and isBlockEvent is still cleared.
C37_FlagsIndependent == [][DroneOffStep]_vars

\* No sub-engine's graph has been built more than once.
GraphsOnce == \A g \in SubEngines : hist.graphs[g] <= 1
\* While the engine is not initialized a call of start, of
\* triggerTransactionSound or of triggerBlockEvent changes nothing and plays
\* nothing.
UninitializedNoOp ==
  (/\ ~ae.isInitialized
   /\ ~ae'.isInitialized
   /\ ae'.initializing = ae.initializing
   /\ hist'.clicks = hist.clicks) =>
     /\ ae' = ae
     /\ tse' = tse
     /\ hist'.strikes = hist.strikes
     /\ ~call'.admitted

\* C38: however the calls of initialize() interleave, each sub-engine's audio
\* graph is built at most once, and while no initialization has succeeded
\* start, triggerTransactionSound and triggerBlockEvent do nothing.
C38_InitializedOnce == []GraphsOnce /\ [][UninitializedNoOp]_vars

\* The settled particles of ps, and what is left to fade of them: the alpha
\* of each and one fade more, which removes it.
SettledOf(ps) == {ps[i] : i \in {k \in 1..Len(ps) : ps[k].settled}}
RECURSIVE pileAlphaFrom(_, _)
pileAlphaFrom(ps, i) ==
  IF i > Len(ps) THEN 0
  ELSE (IF ps[i].settled THEN ps[i].alpha + AlphaPruneStep ELSE 0)
         + pileAlphaFrom(ps, i + 1)
pileAlpha(ps) == pileAlphaFrom(ps, 1)

\* The step is an animation tick outside a block session.  On such a tick
\* on which no further particle settles: while the pile
\* overflows it takes from what is left to fade, which is never negative;
\* when the pile does not overflow it leaves the settled particles alone.
PhysicsTick ==
  /\ viz.mounted /\ ~viz.blockEventRef
  /\ sched.visible /\ sched'.visible
  /\ sched'.runs = sched.runs
  /\ loop.left = 0 /\ loop'.left = 0
  /\ app' = app /\ tse' = tse
EvictionStep ==
  (/\ PhysicsTick
   /\ \A p \in SettledOf(particles') : p.id \in {q.id : q \in SettledOf(particles)}) =>
     IF pileOverflows(particles, viz.container)
       THEN /\ pileAlpha(particles') < pileAlpha(particles)
            /\ pileAlpha(particles') >= 0
       ELSE SettledOf(particles') = SettledOf(particles)

\* C39: overflow eviction terminates.  On every normal tick on which the pile
\* overflows and no further particle settles, the alpha left in the pile
\* falls; it cannot fall for ever, so after finitely many such ticks the pile
\* is at or below the threshold or gone, and from then on no tick fades or
\* removes a settled particle.
C39_EvictionTerminates == [][EvictionStep]_vars

\* C39 witness: the feed built a tower that overflowed and has come to its
\* end; no block was notified.  The eviction has taken the pile, and no
\* particle is left.
C39_Witness ==
  /\ sched.visible /\ sched.runs = MaxRuns
  /\ loop.spawned > TowerFrom
  /\ hist.blocks = 0
  /\ particles = <<>>


(***************************************************************************)
(* The animation loop: properties of SpecLoop.                             *)
(***************************************************************************)
\* The callbacks pending are at most one, the one animationRef names, made
\* by the closure of the level rendered last.
OneFrame ==
  /\ Cardinality(viz.pending) <= 1
  /\ \A f \in viz.pending :
       f.handle = viz.animationRef /\ f.stressLevel = viz.stressLevel
\* A step in which the mounted visualizer is rendered with another
\* stressLevel leaves none of the callbacks that were pending.
StressChangeStep ==
  (viz.mounted /\ viz'.mounted /\ viz'.stressLevel # viz.stressLevel) =>
     /\ viz.pending \cap viz'.pending = {}
     /\ viz'.loops = viz.loops + 1
\* C40: at any time at most one animation-frame callback of the simulation
\* is pending; a change of stressLevel cancels the pending frame before the
\* new loop starts; once the visualizer is unmounted no frame is scheduled.
C40_SingleAnimationLoop ==
  /\ []OneFrame
  /\ [](~viz.mounted => viz.pending = {})
  /\ [][StressChangeStep]_vars
\* The level has changed under a running loop: the effect has run a second
\* time, frames have been called back, and one frame is pending.
C40_Witness ==
  /\ viz.mounted
  /\ viz.loops >= 2
  /\ viz.requested > viz.loops + 1
  /\ Cardinality(viz.pending) = 1
  /\ particles # <<>>

====
